---- MODULE Spec2Model ----
(***************************************************************************)
(* Verification model of the dashboard's collection engine (model.py and   *)
(* its copy of the global collection in model_system.py), of its file      *)
(* system survey (model_file.py) and of its snapshot store and poller      *)
(* (controller.py, app.py).                                                *)
(*                                                                         *)
(* Conventions                                                             *)
(*  - Wall-clock instants and intervals are integers in milliseconds.      *)
(*  - Every value the code passes through round(x, 2) is kept as an        *)
(*    integer number of hundredths (7.5 % is 750, 170.67 B/s is 17067).    *)
(*    round() is modelled as round-half-to-even on the exact quotient.     *)
(*  - What the kernel shows to one call (the files under /proc at the      *)
(*    moment they are read) is an input of the call, drawn from a bounded  *)
(*    set by the action that makes the call.                               *)
(***************************************************************************)
EXTENDS Integers, Sequences, FiniteSets, TLC

VARIABLES
    cache,            \* model.cache: the delta-rate tables
    call,             \* the last direct call of a model.py function
    system_data,      \* controller.system_data: global_info, processes, limit
    lock,             \* system_data.lock: "free" or the thread holding it
    thread_started,   \* controller._thread_started
    collectors,       \* the background_data_collector threads that exist
    session,          \* the Streamlit script threads running app.py
    user_cache,       \* model._user_cache: uid -> user name
    cycles,           \* how many executions of update() have begun
    runs,             \* how many runs of the script have begun
    heap,             \* the process-record dict objects, by identity
    model_system      \* module model_system: its cache and its _user_cache

vars == <<cache, call, system_data, lock, thread_started, collectors, session,
          user_cache, cycles, runs, heap, model_system>>

\* An optional value: None is the empty tuple, a value v is <<v>>.
None == <<>>

Some(v) == <<v>>

Val(o) == o[1]

----------------------------------------------------------------------------
(* Program constants *)

CLK_TCK == 100

SECTOR_SIZE == 512

----------------------------------------------------------------------------
(* Arithmetic helpers *)

Max(a, b) == IF a >= b THEN a ELSE b

Min(a, b) == IF a <= b THEN a ELSE b

\* round(n / d * 100) for d > 0: the quotient n/d in hundredths, rounded
\* half to even as Python's round(x, 2) does on an exact tie.
Round2(n, d) ==
    LET s == n * 100
        q == s \div d
        r == s % d
    IN  IF 2 * r < d THEN q
        ELSE IF 2 * r > d THEN q + 1
        ELSE IF q % 2 = 0 THEN q ELSE q + 1

\* Python's s[:n] on a list.
SliceTo(s, n) ==
    IF n >= 0 THEN SubSeq(s, 1, Min(n, Len(s)))
    ELSE SubSeq(s, 1, Max(Len(s) + n, 0))

\* Removing a key from a dict (del d[k] guarded by "if k in d").
DelKey(d, k) == [x \in (DOMAIN d) \ {k} |-> d[x]]

\* d[k] = v on a dict.
SetKey(d, k, v) == [x \in (DOMAIN d) \cup {k} |-> IF x = k THEN v ELSE d[x]]

\* Keeping only the keys in keep.
Restrict(d, keep) == [x \in (DOMAIN d) \cap keep |-> d[x]]

EmptyDict == [x \in {} |-> 0]

SeqToSet(s) == {s[i] : i \in DOMAIN s}

----------------------------------------------------------------------------
(* model.get_username_from_uid_local                                       *)
(* passwd is what /etc/passwd shows to this call: kind "ok" with the       *)
(* uid -> name entries, "nf" (no such file) or "perm" (not readable).      *)
(* The result carries the returned name, the cache afterwards, whether the *)
(* file was opened and whether the call raised.                            *)

\* str(uid_int)
UidStr(uid) == ToString(uid)

\* A lookup that does not consult the cache before it reads the database.
LookupWithoutCache(uc, uid_int, passwd) ==
    IF passwd.kind = "perm"
    THEN [name |-> "", user_cache |-> uc, scanned |-> TRUE, raised |-> TRUE]
    ELSE IF passwd.kind = "ok" /\ uid_int \in DOMAIN passwd.entries
    THEN [name |-> passwd.entries[uid_int],
          user_cache |-> SetKey(uc, uid_int, passwd.entries[uid_int]),
          scanned |-> TRUE, raised |-> FALSE]
    ELSE [name |-> UidStr(uid_int),
          user_cache |-> SetKey(uc, uid_int, UidStr(uid_int)),
          scanned |-> TRUE, raised |-> FALSE]

get_username_from_uid_local(uc, uid_int, passwd) ==
    IF uid_int \in DOMAIN uc
    THEN [name |-> uc[uid_int], user_cache |-> uc, scanned |-> FALSE, raised |-> FALSE]
    ELSE IF passwd.kind = "perm"
    THEN [name |-> "", user_cache |-> uc, scanned |-> TRUE, raised |-> TRUE]
    ELSE IF passwd.kind = "ok" /\ uid_int \in DOMAIN passwd.entries
    THEN [name |-> passwd.entries[uid_int],
          user_cache |-> SetKey(uc, uid_int, passwd.entries[uid_int]),
          scanned |-> TRUE, raised |-> FALSE]
    ELSE [name |-> UidStr(uid_int),
          user_cache |-> SetKey(uc, uid_int, UidStr(uid_int)),
          scanned |-> TRUE, raised |-> FALSE]

----------------------------------------------------------------------------
(* model.get_processes_info                                                *)
(*                                                                         *)
(* The kernel input k of one call:                                         *)
(*   k.meminfo  /proc/meminfo as read at lines 377-385: kind "ok" (with an  *)
(*              optional MemTotal), "nf", "bad" or "perm"                  *)
(*   k.listing  "ok", or "error" when Path('/proc').iterdir() raises       *)
(*   k.dirs     the numeric directories, in iteration order                *)
(*   k.proc     per pid, the three files as this call finds them:          *)
(*     stat     kind "ok" | "nf" | "perm" | "bad", name, ticks             *)
(*     status   kind "ok" | "nf" | "perm" | "bad", uid, vmrss, threads     *)
(*     io       kind "ok", or "nf" | "perm" | "bad" | "err" (any failure), *)
(*              read_bytes, write_bytes                                    *)
(*   k.passwd   /etc/passwd                                                *)

\* An elapsed time replaced by one second only when it is not positive.
ElapsedFloorAtZero(now, prev_timestamp) ==
    LET e == now - prev_timestamp
    IN  IF e <= 0 THEN 1000 ELSE e

\* Lines 366-373.
ElapsedWallTime(now, prev_timestamp) ==
    LET e == now - prev_timestamp
    IN  IF e <= 1 THEN 1000 ELSE e

\* Lines 375-385: cache['mem_total_kb'] after the fill-in; raised when the
\* read fails with an error the code does not catch (PermissionError).
FillMemTotal(c_mem_total_kb, meminfo) ==
    IF c_mem_total_kb # None THEN [raised |-> FALSE, value |-> c_mem_total_kb]
    ELSE IF meminfo.kind = "ok" THEN [raised |-> FALSE, value |-> meminfo.MemTotal]
    ELSE IF meminfo.kind \in {"nf", "bad"} THEN [raised |-> FALSE, value |-> Some(1)]
    ELSE IF meminfo.kind = "perm" THEN [raised |-> TRUE, value |-> None]
    ELSE [raised |-> FALSE, value |-> None]

\* A handler that skips the process and leaves its cache entries.
SkipPid(st, pid) == st

\* The handlers at lines 439-443 and 517-538: drop the pid from both tables.
PurgePid(st, pid) ==
    [st EXCEPT !.prev_times = DelKey(@, pid),
               !.prev_proc_io_stats = DelKey(@, pid)]

\* Lines 484-493: one I/O rate, before the clamp of lines 513-514.
IoRate(cur, prev, elapsed) == Round2((cur - prev) * 1000, elapsed)

\* A published rate that is not clamped.
Unclamped(x) == x

\* Lines 509, 513, 514: round(max(0, x), 2).
ClampRate(x) == Max(0, x)

\* Lines 469-501: the per-process I/O block.
ProcIo(st, pid, io, elapsed) ==
    IF io.kind # "ok"
    THEN [st |-> st, io_read_bps |-> 0, io_write_bps |-> 0]
    ELSE LET has  == pid \in DOMAIN st.prev_proc_io_stats
             prev == st.prev_proc_io_stats[pid]
         IN  [st |-> [st EXCEPT !.prev_proc_io_stats =
                         SetKey(@, pid, [read_bytes |-> io.read_bytes,
                                         write_bytes |-> io.write_bytes])],
              io_read_bps  |-> IF has THEN IoRate(io.read_bytes, prev.read_bytes, elapsed)
                               ELSE 0,
              io_write_bps |-> IF has THEN IoRate(io.write_bytes, prev.write_bytes, elapsed)
                               ELSE 0]

\* Lines 448-456: cpu_pct of one process, in hundredths of a percent:
\* (ticks / CLK_TCK) / (elapsed / 1000) * 100, with the constant factors
\* folded first to keep the products small.
CpuPct(cur_ticks, prev_ticks, elapsed) ==
    Round2((cur_ticks - prev_ticks) * ((100 * 1000) \div CLK_TCK), elapsed)

\* A loop body in which a failing read of the io file is handled like a
\* failing read of stat: the process is purged and skipped.
ProcessPidIoFatal(st, pid, p, passwd, elapsed, mem_total_kb) ==
    IF p.stat.kind # "ok" \/ p.io.kind # "ok" THEN PurgePid(st, pid)
    ELSE IF p.status.kind # "ok" THEN PurgePid(st, pid)
    ELSE
      LET user == IF p.status.uid # -1
                  THEN get_username_from_uid_local(st.user_cache, p.status.uid, passwd)
                  ELSE [name |-> "N/A", user_cache |-> st.user_cache,
                        scanned |-> FALSE, raised |-> FALSE]
      IN
      IF user.raised THEN PurgePid(st, pid)
      ELSE IF mem_total_kb = None
      THEN PurgePid([st EXCEPT !.user_cache = user.user_cache], pid)
      ELSE
        LET cur     == p.stat.ticks
            prev    == IF pid \in DOMAIN st.prev_times THEN st.prev_times[pid] ELSE 0
            st1     == [st EXCEPT !.user_cache = user.user_cache,
                                  !.prev_times = SetKey(@, pid, cur)]
            iob     == ProcIo(st1, pid, p.io, elapsed)
            rec     == [pid            |-> pid,
                        name           |-> p.stat.name,
                        username       |-> user.name,
                        threads        |-> p.status.threads,
                        cpu_percent    |-> ClampRate(CpuPct(cur, prev, elapsed)),
                        memory_mb      |-> Round2(p.status.vmrss, 1024),
                        memory_percent |-> IF Val(mem_total_kb) > 0
                                           THEN Round2(p.status.vmrss * 100, Val(mem_total_kb))
                                           ELSE 0,
                        cpu_time       |-> Round2(cur, CLK_TCK),
                        io_read_bps    |-> ClampRate(iob.io_read_bps),
                        io_write_bps   |-> ClampRate(iob.io_write_bps)]
        IN  [iob.st EXCEPT !.processes = Append(@, rec)]

\* Lines 403-538: the body of the loop for one pid.
\* st = [prev_times, prev_proc_io_stats, user_cache, processes].
ProcessPid(st, pid, p, passwd, elapsed, mem_total_kb) ==
    IF p.stat.kind # "ok" THEN PurgePid(st, pid)
    ELSE IF p.status.kind # "ok" THEN PurgePid(st, pid)
    ELSE
      LET user == IF p.status.uid # -1
                  THEN get_username_from_uid_local(st.user_cache, p.status.uid, passwd)
                  ELSE [name |-> "N/A", user_cache |-> st.user_cache,
                        scanned |-> FALSE, raised |-> FALSE]
      IN
      IF user.raised THEN PurgePid(st, pid)
      ELSE IF mem_total_kb = None
      THEN PurgePid([st EXCEPT !.user_cache = user.user_cache], pid)
      ELSE
        LET cur     == p.stat.ticks
            prev    == IF pid \in DOMAIN st.prev_times THEN st.prev_times[pid] ELSE 0
            st1     == [st EXCEPT !.user_cache = user.user_cache,
                                  !.prev_times = SetKey(@, pid, cur)]
            iob     == ProcIo(st1, pid, p.io, elapsed)
            rec     == [pid            |-> pid,
                        name           |-> p.stat.name,
                        username       |-> user.name,
                        threads        |-> p.status.threads,
                        cpu_percent    |-> ClampRate(CpuPct(cur, prev, elapsed)),
                        memory_mb      |-> Round2(p.status.vmrss, 1024),
                        memory_percent |-> IF Val(mem_total_kb) > 0
                                           THEN Round2(p.status.vmrss * 100, Val(mem_total_kb))
                                           ELSE 0,
                        cpu_time       |-> Round2(cur, CLK_TCK),
                        io_read_bps    |-> ClampRate(iob.io_read_bps),
                        io_write_bps   |-> ClampRate(iob.io_write_bps)]
        IN  [iob.st EXCEPT !.processes = Append(@, rec)]

\* A loop that ends at the first pid whose stat or status read fails with
\* an error other than a missing file.
RECURSIVE ScanProcUntilFailure(_, _, _, _, _, _)
ScanProcUntilFailure(st, dirs, proc, passwd, elapsed, mem_total_kb) ==
    IF dirs = <<>> THEN st
    ELSE IF \/ proc[Head(dirs)].stat.kind \in {"perm", "bad"}
            \/ proc[Head(dirs)].status.kind \in {"perm", "bad"}
    THEN PurgePid(st, Head(dirs))
    ELSE ScanProcUntilFailure(
             ProcessPid(st, Head(dirs), proc[Head(dirs)], passwd, elapsed, mem_total_kb),
             Tail(dirs), proc, passwd, elapsed, mem_total_kb)

\* Lines 394-538: the loop over the directories of /proc.
RECURSIVE ScanProc(_, _, _, _, _, _)
ScanProc(st, dirs, proc, passwd, elapsed, mem_total_kb) ==
    IF dirs = <<>> THEN st
    ELSE ScanProc(ProcessPid(st, Head(dirs), proc[Head(dirs)], passwd, elapsed, mem_total_kb),
                  Tail(dirs), proc, passwd, elapsed, mem_total_kb)

\* A cleanup that deletes nothing.
KeepAll(table, active_pids_this_run) == table

\* Lines 540-550: stale eviction of one table.
EvictStale(table, active_pids_this_run) == Restrict(table, active_pids_this_run)

\* Line 558: list.sort(key=cpu_time, reverse=True), a stable sort. Insert
\* puts x after every record whose key is at least x's key.
RECURSIVE InsertByCpuTime(_, _)
InsertByCpuTime(sorted, x) ==
    IF sorted = <<>> THEN <<x>>
    ELSE IF Head(sorted).cpu_time >= x.cpu_time
    THEN <<Head(sorted)>> \o InsertByCpuTime(Tail(sorted), x)
    ELSE <<x>> \o sorted

RECURSIVE SortByCpuTime(_)
SortByCpuTime(s) ==
    IF s = <<>> THEN <<>>
    ELSE InsertByCpuTime(SortByCpuTime(SubSeq(s, 1, Len(s) - 1)), s[Len(s)])

\* Cutting the list to the limit before sorting it.
TruncateThenSort(processes, limit) == SortByCpuTime(SliceTo(processes, limit))

\* Lines 556-560.
SortAndTruncate(processes, limit) == SliceTo(SortByCpuTime(processes), limit)

\* The whole call. The result carries the cache and the user cache as the
\* call leaves them, the returned list, the pids enumerated, and whether an
\* exception left the function.
get_processes_info(c, uc, k, now, limit) ==
    LET elapsed == ElapsedWallTime(now, c.prev_timestamp)
        filled  == FillMemTotal(c.mem_total_kb, k.meminfo)
    IN
    IF filled.raised
    THEN [raised |-> TRUE, cache |-> c, user_cache |-> uc, result |-> <<>>,
          active_pids_this_run |-> {}, elapsed_wall_time |-> elapsed]
    ELSE
      LET c1 == [c EXCEPT !.mem_total_kb = filled.value]
          \* lines 387-388
          mem_total_kb == IF filled.value = Some(0) THEN Some(1) ELSE filled.value
      IN
      IF k.listing # "ok"
      THEN [raised |-> TRUE, cache |-> c1, user_cache |-> uc, result |-> <<>>,
            active_pids_this_run |-> {}, elapsed_wall_time |-> elapsed]
      ELSE
        LET st0 == [prev_times |-> c1.prev_times,
                    prev_proc_io_stats |-> c1.prev_proc_io_stats,
                    user_cache |-> uc, processes |-> <<>>]
            st  == ScanProc(st0, k.dirs, k.proc, k.passwd, elapsed, mem_total_kb)
            active == SeqToSet(k.dirs)
        IN  [raised |-> FALSE,
             cache |-> [c1 EXCEPT !.prev_times = EvictStale(st.prev_times, active),
                                  !.prev_proc_io_stats =
                                      EvictStale(st.prev_proc_io_stats, active),
                                  !.prev_timestamp = now],
             user_cache |-> st.user_cache,
             result |-> SortAndTruncate(st.processes, limit),
             active_pids_this_run |-> active,
             elapsed_wall_time |-> elapsed]

----------------------------------------------------------------------------
(* model.get_global_info                                                   *)
(*                                                                         *)
(* The kernel input g of one call:                                         *)
(*   g.stat      the "cpu" line of /proc/stat: kind "ok" (fields: the tick *)
(*               counters after "cpu"), "nf", "bad" (a non-numeric field)  *)
(*               or "perm"                                                 *)
(*   g.meminfo   /proc/meminfo: kind "ok" (optional MemTotal,              *)
(*               MemAvailable, MemFree), "nf", "bad" or "perm"             *)
(*   g.listing   "ok", or "error" when Path('/proc').iterdir() raises      *)
(*   g.dirs      the numeric directories of /proc                          *)
(*   g.proc      per pid, its status file (kind, threads)                  *)
(*   g.diskstats /proc/diskstats: kind "ok" (devices: name, sectors read   *)
(*               and written, each optional: None is a non-numeric field), *)
(*               "nf" or "perm"                                            *)
(* A device name is a tuple of one-character strings.                      *)

Digits == {"0", "1", "2", "3", "4", "5", "6", "7", "8", "9"}

\* str.startswith
StartsWith(name, prefix) ==
    Len(name) >= Len(prefix) /\ SubSeq(name, 1, Len(prefix)) = prefix

\* name[n:]
Suffix(name, n) == SubSeq(name, n + 1, Len(name))

\* Line 259, in the order the loop tries them.
relevant_device_prefixes == << <<"s", "d">>, <<"h", "d">>, <<"v", "d">>, <<"x", "v", "d">> >>

nvme_prefix == <<"n", "v", "m", "e">>

excluded_prefixes == { <<"s", "r">>, <<"l", "o", "o", "p">>, <<"r", "a", "m">>,
                       <<"d", "m", "-">> }

\* A filter that looks at the prefix only and takes partitions for disks.
AnyKnownPrefix(device_name) ==
    /\ \/ \E i \in DOMAIN relevant_device_prefixes :
              StartsWith(device_name, relevant_device_prefixes[i])
       \/ StartsWith(device_name, nvme_prefix)
    /\ \A x \in excluded_prefixes : ~StartsWith(device_name, x)

\* Lines 270-287.
IsRelevantDevice(device_name) ==
    LET matching == {i \in DOMAIN relevant_device_prefixes :
                        StartsWith(device_name, relevant_device_prefixes[i])}
        \* the first prefix that matches decides, then the loop breaks
        first == CHOOSE i \in matching : \A j \in matching : i <= j
        by_prefix ==
            /\ matching # {}
            /\ \A n \in DOMAIN Suffix(device_name, Len(relevant_device_prefixes[first])) :
                   Suffix(device_name, Len(relevant_device_prefixes[first]))[n] \notin Digits
        by_nvme ==
            /\ ~by_prefix
            /\ StartsWith(device_name, nvme_prefix)
            /\ \A n \in DOMAIN Suffix(device_name, Len(nvme_prefix)) :
                   Suffix(device_name, Len(nvme_prefix))[n] # "p"
    IN  /\ by_prefix \/ by_nvme
        /\ \A x \in excluded_prefixes : ~StartsWith(device_name, x)

\* Lines 289-300: the bytes one device adds to the two aggregates.
DeviceBytes(dev) ==
    IF IsRelevantDevice(dev.name) /\ dev.sectors_read # None /\ dev.sectors_written # None
    THEN [reads  |-> Val(dev.sectors_read) * SECTOR_SIZE,
          writes |-> Val(dev.sectors_written) * SECTOR_SIZE]
    ELSE [reads |-> 0, writes |-> 0]

RECURSIVE AggregateDisk(_)
AggregateDisk(devices) ==
    IF devices = <<>> THEN [reads |-> 0, writes |-> 0]
    ELSE LET h == DeviceBytes(Head(devices))
             t == AggregateDisk(Tail(devices))
         IN  [reads |-> h.reads + t.reads, writes |-> h.writes + t.writes]

\* Lines 131-173: the CPU block. The result carries the two percentages
\* (before the final rounding, which Round2 already applies), the table
\* prev_sys_cpu_times afterwards and whether PermissionError left the call.
CpuDefaults(prev_sys) ==
    [raised |-> FALSE, cpu_used_pct |-> 0, cpu_ocioso_pct |-> 0, prev_sys_cpu_times |-> prev_sys]

\* A CPU block that takes the deltas whenever a previous total is cached,
\* also when the current total is not above it.
CpuBlockDeltaWhenCached(prev_sys, stat) ==
    IF stat.kind = "perm"
    THEN [CpuDefaults(prev_sys) EXCEPT !.raised = TRUE]
    ELSE IF stat.kind # "ok" THEN CpuDefaults(prev_sys)
    ELSE IF Len(stat.fields) < 5 THEN CpuDefaults(prev_sys)
    ELSE
      LET fields == stat.fields
          RECURSIVE Sum(_)
          Sum(i) == IF i = 0 THEN 0 ELSE fields[i] + Sum(i - 1)
          current_ocioso == fields[4] + fields[5]
          current_total  == Sum(Len(fields))
          prev_ocioso == IF prev_sys = None THEN 0 ELSE Val(prev_sys).ocioso
          prev_total  == IF prev_sys = None THEN 0 ELSE Val(prev_sys).total
          updated == Some([ocioso |-> current_ocioso, total |-> current_total])
          total_diff  == current_total - prev_total
          ocioso_diff == current_ocioso - prev_ocioso
      IN
      IF prev_total > 0
      THEN [raised |-> FALSE,
            cpu_used_pct   |-> IF total_diff > 0
                               THEN Round2((total_diff - ocioso_diff) * 100, total_diff) ELSE 0,
            cpu_ocioso_pct |-> IF total_diff > 0
                               THEN Round2(ocioso_diff * 100, total_diff) ELSE 0,
            prev_sys_cpu_times |-> updated]
      ELSE IF Len(fields) < 8 THEN CpuDefaults(prev_sys)
      ELSE LET non_ocioso_time == fields[1] + fields[2] + fields[3]
                                  + fields[6] + fields[7] + fields[8]
           IN  [raised |-> FALSE,
                cpu_used_pct   |-> IF current_total > 0
                                   THEN Round2(non_ocioso_time * 100, current_total) ELSE 0,
                cpu_ocioso_pct |-> IF current_total > 0
                                   THEN Round2(fields[4] * 100, current_total) ELSE 0,
                prev_sys_cpu_times |-> updated]

\* Lines 131-173.
CpuBlock(prev_sys, stat) ==
    IF stat.kind = "perm"
    THEN [CpuDefaults(prev_sys) EXCEPT !.raised = TRUE]
    ELSE IF stat.kind # "ok" THEN CpuDefaults(prev_sys)
    ELSE IF Len(stat.fields) < 5 THEN CpuDefaults(prev_sys)   \* IndexError at line 142
    ELSE
      LET fields == stat.fields
          RECURSIVE Sum(_)
          Sum(i) == IF i = 0 THEN 0 ELSE fields[i] + Sum(i - 1)
          current_ocioso == fields[4] + fields[5]
          current_total  == Sum(Len(fields))
          prev_ocioso == IF prev_sys = None THEN 0 ELSE Val(prev_sys).ocioso
          prev_total  == IF prev_sys = None THEN 0 ELSE Val(prev_sys).total
          updated == Some([ocioso |-> current_ocioso, total |-> current_total])
      IN
      IF prev_total > 0 /\ current_total > prev_total
      THEN LET total_diff  == current_total - prev_total
               ocioso_diff == current_ocioso - prev_ocioso
           IN  [raised |-> FALSE,
                cpu_used_pct   |-> Round2((total_diff - ocioso_diff) * 100, total_diff),
                cpu_ocioso_pct |-> Round2(ocioso_diff * 100, total_diff),
                prev_sys_cpu_times |-> updated]
      ELSE IF Len(fields) < 8 THEN CpuDefaults(prev_sys)      \* IndexError at line 163
      ELSE LET non_ocioso_time == fields[1] + fields[2] + fields[3]
                                  + fields[6] + fields[7] + fields[8]
           IN  [raised |-> FALSE,
                cpu_used_pct   |-> IF current_total > 0
                                   THEN Round2(non_ocioso_time * 100, current_total) ELSE 0,
                cpu_ocioso_pct |-> IF current_total > 0
                                   THEN Round2(fields[4] * 100, current_total) ELSE 0,
                prev_sys_cpu_times |-> updated]

\* Lines 178-228: the memory block.
MemDefaults(c_mem_total_kb) ==
    [raised |-> FALSE, mem_used_pct |-> 0, mem_free_pct |-> 0, mem_used_absolute_kb |-> 0,
     swap_used_kb |-> 0, mem_total_kb |-> c_mem_total_kb]

\* Lines 217-220: the local swap_used_kb, SwapTotal - SwapFree with 0 for a
\* key the table lacks. The value stays local to the memory block: the
\* record built at lines 334-344 has no entry for it.
SwapUsed(meminfo) ==
    (IF meminfo.SwapTotal # None THEN Val(meminfo.SwapTotal) ELSE 0)
    - (IF meminfo.SwapFree # None THEN Val(meminfo.SwapFree) ELSE 0)

\* The memory block without the MemFree fallback of line 200.
MemBlockNoFallback(c_mem_total_kb, meminfo) ==
    IF meminfo.kind = "perm"
    THEN [MemDefaults(c_mem_total_kb) EXCEPT !.raised = TRUE]
    ELSE IF meminfo.kind # "ok" THEN MemDefaults(c_mem_total_kb)
    ELSE
      LET total_mem_kb == IF meminfo.MemTotal # None THEN Val(meminfo.MemTotal) ELSE 1
          avail_mem_kb == IF meminfo.MemAvailable # None THEN Val(meminfo.MemAvailable)
                          ELSE 0
      IN
      IF total_mem_kb > 0
      THEN [raised |-> FALSE,
            mem_used_pct |-> Round2((total_mem_kb - avail_mem_kb) * 100, total_mem_kb),
            mem_free_pct |-> Round2(avail_mem_kb * 100, total_mem_kb),
            mem_used_absolute_kb |-> total_mem_kb - avail_mem_kb,
            swap_used_kb |-> SwapUsed(meminfo),
            mem_total_kb |-> Some(total_mem_kb)]
      ELSE [MemDefaults(c_mem_total_kb) EXCEPT !.mem_total_kb = Some(total_mem_kb),
                                               !.swap_used_kb = SwapUsed(meminfo)]

MemBlock(c_mem_total_kb, meminfo) ==
    IF meminfo.kind = "perm"
    THEN [MemDefaults(c_mem_total_kb) EXCEPT !.raised = TRUE]
    ELSE IF meminfo.kind # "ok" THEN MemDefaults(c_mem_total_kb)
    ELSE
      LET total_mem_kb == IF meminfo.MemTotal # None THEN Val(meminfo.MemTotal) ELSE 1
          avail_mem_kb == IF meminfo.MemAvailable # None THEN Val(meminfo.MemAvailable)
                          ELSE IF meminfo.MemFree # None THEN Val(meminfo.MemFree)
                          ELSE 0
      IN
      IF total_mem_kb > 0
      THEN [raised |-> FALSE,
            mem_used_pct |-> Round2((total_mem_kb - avail_mem_kb) * 100, total_mem_kb),
            mem_free_pct |-> Round2(avail_mem_kb * 100, total_mem_kb),
            mem_used_absolute_kb |-> total_mem_kb - avail_mem_kb,
            swap_used_kb |-> SwapUsed(meminfo),
            mem_total_kb |-> Some(total_mem_kb)]
      ELSE [MemDefaults(c_mem_total_kb) EXCEPT !.mem_total_kb = Some(total_mem_kb),
                                               !.swap_used_kb = SwapUsed(meminfo)]

\* Lines 232-248: the process and thread counts.
RECURSIVE ThreadCount(_, _)
ThreadCount(pids, proc) ==
    IF pids = {} THEN 0
    ELSE LET pid == CHOOSE x \in pids : TRUE
         IN  (IF proc[pid].status.kind = "ok" THEN proc[pid].status.threads ELSE 0)
             + ThreadCount(pids \ {pid}, proc)

\* Lines 304-308.
ElapsedDiskIoTime(now, prev_disk_io_timestamp) ==
    LET e == now - prev_disk_io_timestamp
    IN  IF e <= 1 THEN 1000 ELSE e

\* A disk rate computed whatever the time since the previous measurement.
DiskRateAlways(cur, prev_stat, now, prev_disk_io_timestamp) ==
    LET prev == IF prev_stat = None THEN cur ELSE Val(prev_stat)
    IN  Round2((cur - prev) * 1000, ElapsedDiskIoTime(now, prev_disk_io_timestamp))

\* Lines 310-324: one disk rate, before the clamp of lines 342-343.
DiskRate(cur, prev_stat, now, prev_disk_io_timestamp) ==
    LET prev == IF prev_stat = None THEN cur ELSE Val(prev_stat)
    IN  IF prev_disk_io_timestamp < now - 100
        THEN Round2((cur - prev) * 1000, ElapsedDiskIoTime(now, prev_disk_io_timestamp))
        ELSE 0

global_info_defaults ==
    [cpu_used_pct |-> 0, cpu_ocioso_pct |-> 0, mem_used_absolute_kb |-> 0,
     mem_used_pct |-> 0, mem_free_pct |-> 0, proc_count |-> 0,
     thread_count_global |-> 0, disk_read_bps |-> 0, disk_write_bps |-> 0]

\* The whole call: the cache as the call leaves it, the returned record and
\* whether an exception left the function (the cache then keeps what the
\* blocks before the exception stored).
get_global_info(c, g, now) ==
    LET cpu == CpuBlock(c.prev_sys_cpu_times, g.stat)
        c1  == [c EXCEPT !.prev_sys_cpu_times = cpu.prev_sys_cpu_times]
        mem == MemBlock(c.mem_total_kb, g.meminfo)
        c2  == [c1 EXCEPT !.mem_total_kb = mem.mem_total_kb]
        agg == IF g.diskstats.kind = "ok" THEN AggregateDisk(g.diskstats.devices)
               ELSE [reads |-> 0, writes |-> 0]
        prev_reads  == IF c.prev_disk_stats = None THEN None
                       ELSE Some(Val(c.prev_disk_stats).total_reads_bytes)
        prev_writes == IF c.prev_disk_stats = None THEN None
                       ELSE Some(Val(c.prev_disk_stats).total_writes_bytes)
        c3  == [c2 EXCEPT !.prev_disk_stats = Some([total_reads_bytes |-> agg.reads,
                                                    total_writes_bytes |-> agg.writes]),
                          !.prev_disk_io_timestamp = now]
    IN
    IF cpu.raised THEN [raised |-> TRUE, cache |-> c, info |-> global_info_defaults]
    ELSE IF mem.raised THEN [raised |-> TRUE, cache |-> c1, info |-> global_info_defaults]
    ELSE IF g.listing # "ok" \/ g.diskstats.kind = "perm"
    THEN [raised |-> TRUE, cache |-> c2, info |-> global_info_defaults]
    ELSE [raised |-> FALSE,
          cache  |-> c3,
          info   |-> [cpu_used_pct   |-> cpu.cpu_used_pct,
                      cpu_ocioso_pct |-> cpu.cpu_ocioso_pct,
                      mem_used_absolute_kb |-> mem.mem_used_absolute_kb,
                      mem_used_pct   |-> mem.mem_used_pct,
                      mem_free_pct   |-> mem.mem_free_pct,
                      proc_count     |-> Cardinality(g.dirs),
                      thread_count_global |-> ThreadCount(g.dirs, g.proc),
                      disk_read_bps  |-> ClampRate(DiskRate(agg.reads, prev_reads, now,
                                                            c.prev_disk_io_timestamp)),
                      disk_write_bps |-> ClampRate(DiskRate(agg.writes, prev_writes, now,
                                                            c.prev_disk_io_timestamp))]]

----------------------------------------------------------------------------
(* model_system.get_global_info: the copy of get_global_info in module     *)
(* model_system. It works on model_system.cache and differs from the       *)
(* function of model.py in how the loop over the prefixes is written.      *)

\* model_system.py lines 52-87: get_username_from_uid_local of module
\* model_system, on that module's _user_cache. model_file imports this one.
get_username_from_uid_local_system(uc, uid_int, passwd) ==
    IF uid_int \in DOMAIN uc
    THEN [name |-> uc[uid_int], user_cache |-> uc, scanned |-> FALSE, raised |-> FALSE]
    ELSE IF passwd.kind = "ok"
    THEN IF uid_int \in DOMAIN passwd.entries
         THEN [name |-> passwd.entries[uid_int],
               user_cache |-> SetKey(uc, uid_int, passwd.entries[uid_int]),
               scanned |-> TRUE, raised |-> FALSE]
         ELSE [name |-> UidStr(uid_int),
               user_cache |-> SetKey(uc, uid_int, UidStr(uid_int)),
               scanned |-> TRUE, raised |-> FALSE]
    ELSE IF passwd.kind = "nf"
    THEN [name |-> UidStr(uid_int),
          user_cache |-> SetKey(uc, uid_int, UidStr(uid_int)),
          scanned |-> TRUE, raised |-> FALSE]
    ELSE [name |-> "", user_cache |-> uc, scanned |-> TRUE, raised |-> TRUE]

\* model_system.py lines 207-218: the loop goes on to the next prefix when
\* the name starts with one but has a digit after it, and breaks only once
\* the device is relevant.
IsRelevantDeviceSystem(device_name) ==
    LET by_prefix ==
            \E i \in DOMAIN relevant_device_prefixes :
                /\ StartsWith(device_name, relevant_device_prefixes[i])
                /\ \A n \in DOMAIN Suffix(device_name, Len(relevant_device_prefixes[i])) :
                       Suffix(device_name, Len(relevant_device_prefixes[i]))[n] \notin Digits
        by_nvme ==
            /\ ~by_prefix
            /\ StartsWith(device_name, nvme_prefix)
            /\ \A n \in DOMAIN Suffix(device_name, Len(nvme_prefix)) :
                   Suffix(device_name, Len(nvme_prefix))[n] # "p"
    IN  /\ by_prefix \/ by_nvme
        /\ \A x \in excluded_prefixes : ~StartsWith(device_name, x)

\* model_system.py lines 202-227: the loop over the lines of /proc/diskstats.
RECURSIVE AggregateDiskSystem(_)
AggregateDiskSystem(devices) ==
    IF devices = <<>> THEN [reads |-> 0, writes |-> 0]
    ELSE LET dev == Head(devices)
             t == AggregateDiskSystem(Tail(devices))
             added == /\ IsRelevantDeviceSystem(dev.name)
                      /\ dev.sectors_read # None /\ dev.sectors_written # None
         IN  [reads  |-> t.reads + (IF added THEN Val(dev.sectors_read) * SECTOR_SIZE ELSE 0),
              writes |-> t.writes + (IF added THEN Val(dev.sectors_written) * SECTOR_SIZE ELSE 0)]

\* model_system.py lines 93-262. The CPU block, the memory block, the counts
\* and the rate computation read as in model.py.
get_global_info_system(c, g, now) ==
    LET cpu == CpuBlock(c.prev_sys_cpu_times, g.stat)
        c1  == [c EXCEPT !.prev_sys_cpu_times = cpu.prev_sys_cpu_times]
        mem == MemBlock(c.mem_total_kb, g.meminfo)
        c2  == [c1 EXCEPT !.mem_total_kb = mem.mem_total_kb]
        agg == IF g.diskstats.kind = "ok" THEN AggregateDiskSystem(g.diskstats.devices)
               ELSE [reads |-> 0, writes |-> 0]
        prev_reads  == IF c.prev_disk_stats = None THEN None
                       ELSE Some(Val(c.prev_disk_stats).total_reads_bytes)
        prev_writes == IF c.prev_disk_stats = None THEN None
                       ELSE Some(Val(c.prev_disk_stats).total_writes_bytes)
        c3  == [c2 EXCEPT !.prev_disk_stats = Some([total_reads_bytes |-> agg.reads,
                                                    total_writes_bytes |-> agg.writes]),
                          !.prev_disk_io_timestamp = now]
    IN
    IF cpu.raised THEN [raised |-> TRUE, cache |-> c, info |-> global_info_defaults]
    ELSE IF mem.raised THEN [raised |-> TRUE, cache |-> c1, info |-> global_info_defaults]
    ELSE IF g.listing # "ok" \/ g.diskstats.kind = "perm"
    THEN [raised |-> TRUE, cache |-> c2, info |-> global_info_defaults]
    ELSE [raised |-> FALSE,
          cache  |-> c3,
          info   |-> [cpu_used_pct   |-> cpu.cpu_used_pct,
                      cpu_ocioso_pct |-> cpu.cpu_ocioso_pct,
                      mem_used_absolute_kb |-> mem.mem_used_absolute_kb,
                      mem_used_pct   |-> mem.mem_used_pct,
                      mem_free_pct   |-> mem.mem_free_pct,
                      proc_count     |-> Cardinality(g.dirs),
                      thread_count_global |-> ThreadCount(g.dirs, g.proc),
                      disk_read_bps  |-> ClampRate(DiskRate(agg.reads, prev_reads, now,
                                                            c.prev_disk_io_timestamp)),
                      disk_write_bps |-> ClampRate(DiskRate(agg.writes, prev_writes, now,
                                                            c.prev_disk_io_timestamp))]]

----------------------------------------------------------------------------
(* model_file.get_directory_contents and model_file.get_filesystem_info    *)
(*                                                                         *)
(* The input dir of one get_directory_contents call:                       *)
(*   dir.kind      "dir" when is_dir() answers yes and iterdir() lists the *)
(*                 children; "notdir" when is_dir() answers no; "perm" and *)
(*                 "err" when is_dir() or iterdir() raises                 *)
(*   dir.children  the children in iteration order, each with its name and *)
(*                 what item_path.stat() gives: kind "ok" (filetype, size, *)
(*                 mode, uid), "nf", "perm" or "err"                       *)
(*   dir.passwd    /etc/passwd                                             *)
(* An item keeps the keys name, type, size, permissions_octal and          *)
(* owner_username; N/A is None. The texts of the types are written without *)
(* their accents.                                                          *)

\* Lines 124-181: one pass of the loop body, the item it appends in the
\* finally clause and the user cache it leaves.
ItemInfo(uc, child, passwd) ==
    LET item_info == [name |-> child.name, type |-> "N/A", size |-> None,
                      permissions_octal |-> None, owner_username |-> None]
        \* lines 140-155: the chain of S_IS* tests
        ItemType(filetype) ==
            CASE filetype = "dir"  -> "Diretorio"
              [] filetype = "reg"  -> "Arquivo"
              [] filetype = "lnk"  -> "Link Simbolico"
              [] filetype = "chr"  -> "Dispositivo de Caractere"
              [] filetype = "blk"  -> "Dispositivo de Bloco"
              [] filetype = "fifo" -> "FIFO (Pipe Nomeado)"
              [] filetype = "sock" -> "Socket"
              [] OTHER             -> "Desconhecido"
        s == child.stat
        u == get_username_from_uid_local_system(uc, s.uid, passwd)
    IN  IF s.kind = "nf"
        THEN [item |-> [item_info EXCEPT !.type = "N/A (Nao Encontrado)"], user_cache |-> uc]
        ELSE IF s.kind = "perm"
        THEN [item |-> [item_info EXCEPT !.type = "N/A (Permissao Negada)"], user_cache |-> uc]
        ELSE IF s.kind # "ok" \/ u.raised
        THEN [item |-> [item_info EXCEPT !.type = "N/A (Erro)"], user_cache |-> uc]
        ELSE [item |-> [item_info EXCEPT
                          !.type = ItemType(s.filetype),
                          !.size = IF ItemType(s.filetype) = "Arquivo" THEN Some(s.size)
                                   ELSE None,
                          !.permissions_octal = Some(s.mode % 512),
                          !.owner_username = Some(u.name)],
              user_cache |-> u.user_cache]

\* A loop that leaves out the children whose stat fails.
RECURSIVE ListReadable(_, _, _)
ListReadable(uc, children, passwd) ==
    IF children = <<>> THEN [contents |-> <<>>, user_cache |-> uc]
    ELSE LET r    == ItemInfo(uc, Head(children), passwd)
             rest == ListReadable(r.user_cache, Tail(children), passwd)
         IN  [contents |-> IF Head(children).stat.kind = "ok" THEN <<r.item>> \o rest.contents
                           ELSE rest.contents,
              user_cache |-> rest.user_cache]

\* Lines 123-181: the loop over current_path.iterdir().
RECURSIVE ListItems(_, _, _)
ListItems(uc, children, passwd) ==
    IF children = <<>> THEN [contents |-> <<>>, user_cache |-> uc]
    ELSE LET r    == ItemInfo(uc, Head(children), passwd)
             rest == ListItems(r.user_cache, Tail(children), passwd)
         IN  [contents |-> <<r.item>> \o rest.contents, user_cache |-> rest.user_cache]

\* Lines 101-189. The names cached by the items read before a failure of
\* the listing stay cached; here the listing fails before the first item.
get_directory_contents(uc, dir) ==
    IF dir.kind # "dir" THEN [contents |-> <<>>, user_cache |-> uc]
    ELSE ListItems(uc, dir.children, dir.passwd)

(* The input m of one get_filesystem_info call:                            *)
(*   m.kind    "ok", "nf" or "err": how opening /proc/mounts ends          *)
(*   m.lines   the lines of the table, each the tuple line.split() gives:  *)
(*             device and mount point as tuples of characters, then the    *)
(*             type of the file system and the further fields              *)
(*   m.statvfs for a mount point, what os.statvfs gives: kind "ok"         *)
(*             (f_blocks, f_frsize, f_bavail), "nf", "perm" or "err"       *)

\* Lines 44-55: the three filters a line with its three fields goes through.
MountKept(device_name, mount_point_str, fs_type) ==
    LET fs_types_to_ignore ==
            {"sysfs", "proc", "devtmpfs", "tmpfs", "devpts", "debugfs", "securityfs",
             "fusectl", "cgroup", "overlay", "autofs", "mqueue", "hugetlbfs", "pstore",
             "rpc_pipefs", "binfmt_misc", "none", "configfs"}
        mount_points_to_ignore_prefix ==
            {<<"/", "s", "y", "s">>, <<"/", "p", "r", "o", "c">>, <<"/", "d", "e", "v">>,
             <<"/", "r", "u", "n">>,
             <<"/", "v", "a", "r", "/", "l", "i", "b", "/", "d", "o", "c", "k", "e", "r">>,
             <<"/", "s", "n", "a", "p">>,
             <<"/", "e", "t", "c", "/", "r", "e", "s", "o", "l", "v", ".", "c", "o", "n", "f">>,
             <<"/", "e", "t", "c", "/", "h", "o", "s", "t", "n", "a", "m", "e">>,
             <<"/", "e", "t", "c", "/", "h", "o", "s", "t", "s">>}
    IN
    /\ fs_type \notin fs_types_to_ignore
    /\ \A prefix \in mount_points_to_ignore_prefix : ~StartsWith(mount_point_str, prefix)
    /\ \/ StartsWith(device_name, <<"/", "d", "e", "v">>)
       \/ device_name \in {<<"r", "o", "o", "t", "f", "s">>, <<"t", "m", "p", "f", "s">>}
       \/ /\ fs_type = "tmpfs"
          /\ ~ \E prefix \in {<<"/", "d", "e", "v", "/", "s", "h", "m">>,
                               <<"/", "r", "u", "n", "/", "u", "s", "e", "r">>} :
                   StartsWith(mount_point_str, prefix)

\* Lines 57-81: the partition of one kept line, or nothing when statvfs
\* fails or the file system has no blocks.
Partition(parts, stat_info) ==
    LET total_size_bytes == stat_info.f_blocks * stat_info.f_frsize
        free_bytes       == stat_info.f_bavail * stat_info.f_frsize
        used_bytes       == total_size_bytes - free_bytes
    IN  IF stat_info.kind # "ok" \/ total_size_bytes <= 0 THEN <<>>
        ELSE << [name |-> parts[1], mount_point |-> parts[2], fs_type |-> parts[3],
                 total_size_kb |-> Round2(total_size_bytes, 1024),
                 used_kb |-> Round2(used_bytes, 1024),
                 free_kb |-> Round2(free_bytes, 1024),
                 usage_percent |-> Round2(used_bytes * 100, total_size_bytes)] >>

\* Lines 35-89: the loop over the lines of /proc/mounts. A line of fewer
\* than two fields is passed over; parts[2] of a line of two fields raises
\* IndexError, which leaves the loop for the handler of line 93.
RECURSIVE ScanMounts(_, _)
ScanMounts(lines, statvfs) ==
    IF lines = <<>> THEN <<>>
    ELSE LET parts == Head(lines)
         IN  IF Len(parts) < 2 THEN ScanMounts(Tail(lines), statvfs)
             ELSE IF Len(parts) < 3 THEN <<>>
             ELSE (IF MountKept(parts[1], parts[2], parts[3])
                   THEN Partition(parts, statvfs[parts[2]]) ELSE <<>>)
                  \o ScanMounts(Tail(lines), statvfs)

\* Lines 8-98.
get_filesystem_info(m, now) ==
    [partitions  |-> IF m.kind = "ok" THEN ScanMounts(m.lines, m.statvfs) ELSE <<>>,
     last_update |-> now]

----------------------------------------------------------------------------
(* model.get_process_details                                               *)
(*                                                                         *)
(* The kernel input d of one call, for the pid asked:                      *)
(*   d.exists  what proc_path.exists() answers                             *)
(*   d.status  /proc/[pid]/status when it is opened: kind "ok" (Name,      *)
(*             State, optional Uid, Threads, VmRSS in kB), "nf" or "perm"  *)
(*   d.stat    /proc/[pid]/stat when it is opened: kind "ok" (ticks, nice, *)
(*             starttime), "nf", "short", "bad" or "perm"; assigned is how *)
(*             many of the four conversions of lines 646-649 were done (4  *)
(*             when ok, fewer when one raised IndexError or ValueError),   *)
(*             ticks the sum of utime and stime as far as assigned         *)
(*   d.btime   optional boot time (seconds) from /proc/stat                *)
(*   d.passwd  /etc/passwd                                                 *)
(* The result is [raised, found, details, user_cache]: found = FALSE is    *)
(* the value None the function returns for "not found".                    *)

PAGE_SIZE == 4096

\* Lines 752-783.
translate_priority_from_nice(nice_value) ==
    IF nice_value = None THEN "N/A"
    ELSE IF Val(nice_value) <= -15 THEN "Muito Alta"
    ELSE IF Val(nice_value) <= -1 THEN "Alta"
    ELSE IF Val(nice_value) = 0 THEN "Normal"
    ELSE IF Val(nice_value) <= 10 THEN "Baixa"
    ELSE IF Val(nice_value) <= 19 THEN "Muito Baixa"
    ELSE "Desconhecida"

NotFound(uc) == [raised |-> FALSE, found |-> FALSE, details |-> None, user_cache |-> uc]

\* A status read that goes on whatever open() did.
StatusReadIgnored(status) == "go"

\* Lines 611-620: what the status read does with the outcome of open():
\* "return" leaves the function with None, "go" continues with the content.
StatusReadOutcome(status) == IF status.kind = "ok" THEN "go" ELSE "return"

\* Lines 644-652: what the stat read does with the outcome of open() and of
\* the four int() conversions: "go" with the values, "default" when the
\* handler of line 651 keeps the defaults, "raise" when the exception is not
\* one of the three it names.
StatReadOutcome(stat) ==
    IF stat.kind = "ok" THEN "go"
    ELSE IF stat.kind \in {"nf", "short", "bad"} THEN "default"
    ELSE "raise"

\* Lines 746-750: the outer handlers turn any exception into None.
OuterHandlers(uc) == NotFound(uc)

get_process_details(uc, pid, d) ==
    IF ~d.exists THEN NotFound(uc)
    ELSE IF StatusReadOutcome(d.status) = "return" THEN NotFound(uc)
    ELSE
      LET user == IF d.status.Uid # None
                  THEN get_username_from_uid_local(uc, Val(d.status.Uid), d.passwd)
                  ELSE [name |-> "N/A", user_cache |-> uc, scanned |-> FALSE,
                        raised |-> FALSE]
          outcome == StatReadOutcome(d.stat)
          stat_ok == outcome = "go"
          \* the handler of line 651 keeps what lines 646-649 assigned before
          \* the exception
          nice_val_from_stat == IF d.stat.assigned >= 3 THEN Some(d.stat.nice) ELSE None
          ticks == IF d.stat.assigned >= 1 THEN d.stat.ticks ELSE 0
          started ==
              IF ~stat_ok THEN [kind |-> "N/A", value |-> 0]
              ELSE IF d.btime # None /\ Val(d.btime) > 0
              THEN [kind |-> "date", value |-> Val(d.btime) * CLK_TCK + d.stat.starttime]
              ELSE [kind |-> "after boot", value |-> d.stat.starttime]
      IN
      IF user.raised THEN OuterHandlers(uc)
      ELSE IF outcome = "raise" THEN OuterHandlers(user.user_cache)
      ELSE [raised |-> FALSE, found |-> TRUE, user_cache |-> user.user_cache,
            details |-> Some([PID |-> pid,
                              Nome |-> d.status.Name,
                              Usuario |-> user.name,
                              Estado |-> d.status.State,
                              Threads |-> d.status.Threads,
                              VmRSS |-> d.status.VmRSS,
                              PaginasResidente |-> (d.status.VmRSS * 1024) \div PAGE_SIZE,
                              TempoCPU |-> Round2(ticks, CLK_TCK),
                              Iniciado |-> started,
                              Prioridade |-> translate_priority_from_nice(nice_val_from_stat),
                              Nice |-> nice_val_from_stat])]

----------------------------------------------------------------------------
(* Kernel inputs: how the files of one process look to one call.           *)

Passwd == [kind |-> "ok", entries |-> [u \in {0} |-> "root"]]

ProcFiles(stat_kind, ticks, status_kind, io_kind, read_bytes, write_bytes) ==
    [stat   |-> [kind |-> stat_kind, name |-> "proc", ticks |-> ticks],
     status |-> [kind |-> status_kind, uid |-> 0, vmrss |-> 2048, threads |-> 2],
     io     |-> [kind |-> io_kind, read_bytes |-> read_bytes, write_bytes |-> write_bytes]]

\* A process all of whose files are readable.
Readable(ticks, read_bytes, write_bytes) ==
    ProcFiles("ok", ticks, "ok", "ok", read_bytes, write_bytes)

MemInfo(kind, total, available) ==
    [kind |-> kind, MemTotal |-> total, MemAvailable |-> available, MemFree |-> None,
     SwapTotal |-> None, SwapFree |-> None]

\* The text of /proc/[pid]/stat, as the kernel writes it: the pid, the
\* command name in parentheses (comm, here its words: a name with a space
\* has two), the state letter, then the numeric fields 4 to 22 (after:
\* field 14 is utime, 15 stime, 18 priority, 19 nice, 22 starttime), all
\* separated by one space.
StatFile(pid, comm, utime, stime, nice, starttime) ==
    [pid |-> pid, comm |-> comm, state |-> "S",
     after |-> <<1, 1, 1, 0, -1, 4194304, 90, 0, 3, 7, utime, stime, 0, 0, 20, nice, 2, 0,
                 starttime>>]

\* str.split() of that text: one token per run of characters other than
\* white space. A token is a number as the kernel prints it, or text; the
\* first word of comm carries the opening parenthesis and the last the
\* closing one.
StatTokens(file) ==
    << [kind |-> "num", value |-> file.pid] >>
    \o [i \in DOMAIN file.comm |->
           [kind |-> "text", text |-> file.comm[i], open |-> (i = 1),
            close |-> (i = Len(file.comm))]]
    \o << [kind |-> "text", text |-> file.state, open |-> FALSE, close |-> FALSE] >>
    \o [i \in DOMAIN file.after |-> [kind |-> "num", value |-> file.after[i]]]

\* model.py lines 407-419: vals[1].strip('()'), int(vals[13]) and
\* int(vals[14]) of the split line (indices from 0 there, from 1 here). The
\* name is the words it is made of; IndexError and ValueError give "bad".
ParseStat(vals) ==
    IF Len(vals) < 15 THEN [kind |-> "bad", name |-> <<>>, ticks |-> 0]
    ELSE IF vals[14].kind # "num" \/ vals[15].kind # "num"
    THEN [kind |-> "bad", name |-> <<>>, ticks |-> 0]
    ELSE [kind  |-> "ok",
          name  |-> IF vals[2].kind = "text" THEN <<vals[2].text>> ELSE <<ToString(vals[2].value)>>,
          ticks |-> vals[14].value + vals[15].value]

\* model.py lines 644-652: int() of stat_vals[13], [14], [18] and [21] of
\* the split text.
ParseStatDetails(stat_vals) ==
    LET Index == <<14, 15, 19, 22>>
        Converts(n) == Index[n] <= Len(stat_vals) /\ stat_vals[Index[n]].kind = "num"
        \* the conversions done before the first one that raises
        assigned == IF \A n \in 1..4 : Converts(n) THEN 4
                    ELSE (CHOOSE n \in 1..4 : ~Converts(n) /\ \A m \in 1..(n - 1) : Converts(m)) - 1
        ValueAt(n) == IF assigned >= n THEN stat_vals[Index[n]].value ELSE 0
    IN  [kind |-> IF assigned = 4 THEN "ok"
                  ELSE IF Index[assigned + 1] > Len(stat_vals) THEN "short" ELSE "bad",
         assigned |-> assigned,
         ticks |-> ValueAt(1) + ValueAt(2),
         nice |-> ValueAt(3),
         starttime |-> ValueAt(4)]

\* All orders of all subsets of a set of pids: the possible iterations of
\* Path('/proc').iterdir() over the numeric directories.
RECURSIVE Orders(_)
Orders(S) ==
    IF S = {} THEN {<<>>}
    ELSE {<<>>} \cup UNION {{<<x>> \o t : t \in Orders(S \ {x})} : x \in S}

\* The orders of the whole set.
Perms(S) == {o \in Orders(S) : Len(o) = Cardinality(S)}

\* The cache as model.py builds it at import (lines 7-36); the two
\* timestamps are the time of the import.
CacheAtImport(import_time) ==
    [prev_sys_cpu_times |-> None,
     prev_times |-> EmptyDict,
     prev_timestamp |-> import_time,
     mem_total_kb |-> None,
     prev_disk_stats |-> None,
     prev_disk_io_timestamp |-> import_time,
     prev_proc_io_stats |-> EmptyDict]

----------------------------------------------------------------------------
(* controller.py: the store, its lock, the collector threads; app.py: the  *)
(* script threads.                                                         *)
(*                                                                         *)
(* A published value carries the number of the update() execution that     *)
(* built it (cycle; 0 for the constructor's defaults). A process record is *)
(* a dict object; its identity is <<cycle, i>>, the i-th record of the     *)
(* list that cycle built, and heap maps the identities of the objects      *)
(* still referred to from some list to their content. A collector inside   *)
(* update() remembers the store's limit as it was when update() began      *)
(* (limit_at_start; 0 outside update()).                                   *)

\* SystemData.__init__ default and app.py's initial session value.
DefaultLimit == 10

\* How many executions of update() the model follows.
MaxCycles == 2

\* How many runs of the script the model follows, all sessions together.
MaxRuns == 2

\* The script threads (one per browser session).
Sessions == {1, 2}

\* The collector threads that can come to exist: each script thread can
\* start one.
Threads == {1, 2}

Free == <<"free", 0>>

SessionThread(s) == <<"session", s>>

CollectorThread(c) == <<"collector", c>>

\* A constructor that fills global_info with a first sample of the counts
\* instead of zeros.
SystemDataInitSampled ==
    [global_info |-> [info |-> [global_info_defaults EXCEPT !.proc_count = 2,
                                                            !.thread_count_global = 4],
                      cycle |-> 0],
     processes   |-> [items |-> <<>>, cycle |-> 0],
     limit       |-> DefaultLimit]

\* Lines 11-33 of controller.py.
SystemDataInit ==
    [global_info |-> [info |-> global_info_defaults, cycle |-> 0],
     processes   |-> [items |-> <<>>, cycle |-> 0],
     limit       |-> DefaultLimit]

\* app.py lines 41-42; nothing read yet.
SessionInit ==
    [pc |-> "start", num_processes_to_show |-> DefaultLimit,
     global_info |-> None, processes |-> None, input |-> None]

\* The record objects some list still refers to.
Referenced(sd, cols, sess) ==
    SeqToSet(sd.processes.items)
    \cup UNION {IF cols[c].procs = None THEN {} ELSE SeqToSet(Val(cols[c].procs).items)
                : c \in DOMAIN cols}
    \cup UNION {IF sess[s].processes = None THEN {} ELSE SeqToSet(Val(sess[s].processes).items)
                : s \in DOMAIN sess}

\* Objects nothing refers to are gone.
Collect(h, sd, cols, sess) == Restrict(h, Referenced(sd, cols, sess))

\* New dict objects for the records of the list a cycle built.
Allocate(h, records, cycle) ==
    [heap  |-> [id \in (DOMAIN h) \cup {<<cycle, i>> : i \in DOMAIN records} |->
                   IF id \in DOMAIN h THEN h[id] ELSE records[id[2]]],
     items |-> [i \in DOMAIN records |-> <<cycle, i>>]]

\* The content of a list of record objects.
Deref(h, items) == [i \in DOMAIN items |-> h[items[i]]]

\* The counters the latest completed polls read: the pids whose io file
\* get_processes_info read, and whether get_global_info read /proc/diskstats.
NothingSeen == [io |-> {}, disk |-> FALSE]

NoCall == [fn |-> "none", seen |-> NothingSeen]

\* What the kernel shows to the collector's calls in the store model: two
\* processes, all files readable, or a failure that leaves the call as an
\* exception.
StorePids == {1, 2}

StoreProc == [pid \in StorePids |-> Readable(pid * 500, 0, 0)]

StoreGlobals ==
    {[stat |-> [kind |-> sk, fields |-> <<20, 0, 10, 60, 10, 0, 0, 0, 0, 0>>],
      meminfo |-> MemInfo("ok", Some(8192), Some(4096)),
      listing |-> "ok", dirs |-> StorePids, proc |-> StoreProc,
      diskstats |-> [kind |-> "ok", devices |-> <<>>]]
     : sk \in {"ok", "perm"}}

StoreKernels ==
    {[meminfo |-> MemInfo("ok", Some(8192), Some(4096)), listing |-> l, dirs |-> <<1, 2>>,
      proc |-> StoreProc, passwd |-> Passwd]
     : l \in {"ok", "error"}}

StoreTimes == {2000}

\* What the user types in the "how many processes" field (app.py line 92):
\* a number, or text that int() rejects.
LimitInputs ==
    {[kind |-> "int", value |-> v] : v \in {-1, 0, 1}} \cup {[kind |-> "text", value |-> 0]}

\* An update() whose except clause lets the thread end.
UpdateDies(col) == [col EXCEPT !.pc = "dead", !.cycle = 0, !.infos = None, !.procs = None]

\* controller.py lines 53-54: update() catches the exception, prints, and
\* returns; the loop then sleeps.
UpdateExcept(col) ==
    [col EXCEPT !.pc = "sleep", !.cycle = 0, !.infos = None, !.procs = None,
                !.limit_at_start = 0]

\* An update() whose "with self.lock" encloses the two collection calls.
CollectGlobalUnderLock(c) ==
    /\ c \in DOMAIN collectors
    /\ collectors[c].pc = "update"
    /\ cycles < MaxCycles
    /\ lock = Free
    /\ lock' = CollectorThread(c)
    /\ cycles' = cycles + 1
    /\ \E g \in StoreGlobals, now \in StoreTimes :
         LET r == get_global_info(cache, g, now)
         IN  /\ cache' = r.cache
             /\ collectors' =
                  [collectors EXCEPT ![c] =
                      IF r.raised THEN UpdateExcept(@)
                      ELSE [@ EXCEPT !.pc = "procs", !.cycle = cycles + 1,
                                     !.infos = Some([info |-> r.info, cycle |-> cycles + 1]),
                                     !.limit_at_start = system_data.limit]]
    /\ UNCHANGED <<model_system, call, system_data, thread_started, session, user_cache, heap, runs>>

\* controller.py line 43, inside the try of update().
CollectGlobal(c) ==
    /\ c \in DOMAIN collectors
    /\ collectors[c].pc = "update"
    /\ cycles < MaxCycles
    /\ cycles' = cycles + 1
    /\ \E g \in StoreGlobals, now \in StoreTimes :
         LET r == get_global_info(cache, g, now)
         IN  /\ cache' = r.cache
             /\ collectors' =
                  [collectors EXCEPT ![c] =
                      IF r.raised THEN UpdateExcept(@)
                      ELSE [@ EXCEPT !.pc = "procs", !.cycle = cycles + 1,
                                     !.infos = Some([info |-> r.info, cycle |-> cycles + 1]),
                                     !.limit_at_start = system_data.limit]]
    /\ UNCHANGED <<model_system, call, system_data, lock, thread_started, session, user_cache, heap, runs>>

\* An update() that reads the limit once, when it begins, and passes that
\* value to get_processes_info.
CollectProcsLimitAtStart(c) ==
    /\ c \in DOMAIN collectors
    /\ collectors[c].pc = "procs"
    /\ \E k \in StoreKernels, now \in StoreTimes :
         LET r == get_processes_info(cache, user_cache, k, now, collectors[c].limit_at_start)
             a == Allocate(heap, r.result, collectors[c].cycle)
         IN  /\ cache' = r.cache
             /\ user_cache' = r.user_cache
             /\ IF r.raised
                THEN /\ collectors' = [collectors EXCEPT ![c] = UpdateExcept(@)]
                     /\ heap' = heap
                ELSE /\ collectors' =
                          [collectors EXCEPT ![c] =
                              [@ EXCEPT !.pc = "acquire",
                                        !.procs = Some([items |-> a.items,
                                                        cycle |-> collectors[c].cycle])]]
                     /\ heap' = a.heap
    /\ UNCHANGED <<model_system, call, system_data, lock, thread_started, session, cycles, runs>>

\* controller.py line 44: the limit is read when the call is made.
CollectProcs(c) ==
    /\ c \in DOMAIN collectors
    /\ collectors[c].pc = "procs"
    /\ \E k \in StoreKernels, now \in StoreTimes :
         LET r == get_processes_info(cache, user_cache, k, now, system_data.limit)
             a == Allocate(heap, r.result, collectors[c].cycle)
         IN  /\ cache' = r.cache
             /\ user_cache' = r.user_cache
             /\ IF r.raised
                THEN /\ collectors' = [collectors EXCEPT ![c] = UpdateExcept(@)]
                     /\ heap' = heap
                ELSE /\ collectors' =
                          [collectors EXCEPT ![c] =
                              [@ EXCEPT !.pc = "acquire",
                                        !.procs = Some([items |-> a.items,
                                                        cycle |-> collectors[c].cycle])]]
                     /\ heap' = a.heap
    /\ UNCHANGED <<model_system, call, system_data, lock, thread_started, session, cycles, runs>>

\* An update() that assigns the two attributes without waiting for the lock.
AssignWithoutLock(c) ==
    /\ c \in DOMAIN collectors
    /\ collectors[c].pc = "acquire"
    /\ lock' = lock
    /\ collectors' = [collectors EXCEPT ![c].pc = "swap_global"]
    /\ UNCHANGED <<model_system, cache, call, system_data, thread_started, session, user_cache, cycles, heap,
                   runs>>

\* controller.py line 50: "with self.lock" blocks until the lock is free.
CollectorAcquire(c) ==
    /\ c \in DOMAIN collectors
    /\ collectors[c].pc = "acquire"
    /\ lock = Free
    /\ lock' = CollectorThread(c)
    /\ collectors' = [collectors EXCEPT ![c].pc = "swap_global"]
    /\ UNCHANGED <<model_system, cache, call, system_data, thread_started, session, user_cache, cycles, heap, runs>>

\* controller.py line 51.
SwapGlobal(c) ==
    /\ c \in DOMAIN collectors
    /\ collectors[c].pc = "swap_global"
    /\ system_data' = [system_data EXCEPT !.global_info = Val(collectors[c].infos)]
    /\ collectors' = [collectors EXCEPT ![c].pc = "swap_procs"]
    /\ UNCHANGED <<model_system, cache, call, lock, thread_started, session, user_cache, cycles, heap, runs>>

\* controller.py line 52 and the end of the with block: the lock is
\* released and update() returns.
SwapProcs(c) ==
    /\ c \in DOMAIN collectors
    /\ collectors[c].pc = "swap_procs"
    /\ LET sd   == [system_data EXCEPT !.processes = Val(collectors[c].procs)]
           cols == [collectors EXCEPT ![c] = [@ EXCEPT !.pc = "sleep", !.cycle = 0,
                                                      !.infos = None, !.procs = None,
                                                      !.limit_at_start = 0]]
       IN  /\ system_data' = sd
           /\ collectors' = cols
           /\ heap' = Collect(heap, sd, cols, session)
    /\ lock' = Free
    /\ UNCHANGED <<model_system, cache, call, thread_started, session, user_cache, cycles, runs>>

\* A collector that returns after its first update() instead of looping.
ReturnAfterSleep(c) ==
    /\ c \in DOMAIN collectors
    /\ collectors[c].pc = "sleep"
    /\ collectors' = [collectors EXCEPT ![c].pc = "dead"]
    /\ UNCHANGED <<model_system, cache, call, system_data, lock, thread_started, session, user_cache,
                   cycles, heap, runs>>

\* controller.py lines 96-98: time.sleep(interval) returns and the loop
\* calls update() again.
Wake(c) ==
    /\ c \in DOMAIN collectors
    /\ collectors[c].pc = "sleep"
    /\ collectors' = [collectors EXCEPT ![c].pc = "update"]
    /\ UNCHANGED <<model_system, cache, call, system_data, lock, thread_started, session, user_cache,
                   cycles, heap, runs>>

\* controller.py line 68, called from app.py line 47 at the start of a run.
SnapshotAcquire(s) ==
    /\ session[s].pc = "start"
    /\ runs < MaxRuns
    /\ runs' = runs + 1
    /\ lock = Free
    /\ lock' = SessionThread(s)
    /\ session' = [session EXCEPT ![s].pc = "copy_global"]
    /\ UNCHANGED <<model_system, cache, call, system_data, thread_started, collectors, user_cache, cycles,
                   heap>>

\* controller.py line 75: dict.copy() of a dict of numbers.
CopyGlobal(s) ==
    /\ session[s].pc = "copy_global"
    /\ session' = [session EXCEPT ![s].pc = "copy_procs",
                                  ![s].global_info = Some(system_data.global_info)]
    /\ UNCHANGED <<model_system, cache, call, system_data, lock, thread_started, collectors, user_cache,
                   cycles, heap, runs>>

\* A get_snapshot that returns the pair without releasing the lock.
CopyProcsKeepsLock(s) ==
    /\ session[s].pc = "copy_procs"
    /\ session' = [session EXCEPT ![s].pc = "render",
                                  ![s].processes = Some(system_data.processes)]
    /\ lock' = lock
    /\ UNCHANGED <<model_system, cache, call, system_data, thread_started, collectors, user_cache, cycles,
                   heap, runs>>

\* controller.py lines 76-77: list(self.processes) is a new list of the same
\* record objects; the with block ends and the pair is returned.
CopyProcs(s) ==
    /\ session[s].pc = "copy_procs"
    /\ session' = [session EXCEPT ![s].pc = "render",
                                  ![s].processes = Some(system_data.processes)]
    /\ lock' = Free
    /\ UNCHANGED <<model_system, cache, call, system_data, thread_started, collectors, user_cache, cycles,
                   heap, runs>>

\* A caller that writes into the dict get_snapshot returned (app.py line 67
\* does, with setdefault).
CallerMutatesGlobal(s) ==
    /\ session[s].pc = "render"
    /\ Val(session[s].global_info).info.proc_count # -1
    /\ session' = [session EXCEPT ![s].global_info =
                      Some([Val(@) EXCEPT !.info.proc_count = -1])]
    /\ UNCHANGED <<model_system, cache, call, system_data, lock, thread_started, collectors, user_cache,
                   cycles, heap, runs>>

\* A caller that removes the last element of the list get_snapshot returned.
CallerMutatesList(s) ==
    /\ session[s].pc = "render"
    /\ Val(session[s].processes).items # <<>>
    /\ LET sess == [session EXCEPT ![s].processes =
                       Some([Val(@) EXCEPT !.items = SubSeq(@, 1, Len(@) - 1)])]
       IN  /\ session' = sess
           /\ heap' = Collect(heap, system_data, collectors, sess)
    /\ UNCHANGED <<model_system, cache, call, system_data, lock, thread_started, collectors, user_cache,
                   cycles, runs>>

\* A caller that writes into the first record of the list get_snapshot
\* returned.
CallerMutatesRecord(s) ==
    /\ session[s].pc = "render"
    /\ Val(session[s].processes).items # <<>>
    /\ LET id == Val(session[s].processes).items[1]
       IN  /\ heap[id].name # "mutated"
           /\ heap' = [heap EXCEPT ![id].name = "mutated"]
    /\ UNCHANGED <<model_system, cache, call, system_data, lock, thread_started, collectors, session,
                   user_cache, cycles, runs>>

\* A validation without the test of line 88.
ValidatedLimitAnyInt(input, num_processes_to_show) ==
    IF input.kind = "int" THEN input.value ELSE num_processes_to_show

\* app.py lines 84-101: the limit the script goes on with, given what the
\* user typed and the session's current value.
ValidatedLimit(input, num_processes_to_show) ==
    IF input.kind = "int"
    THEN IF input.value < 1 THEN num_processes_to_show ELSE input.value
    ELSE num_processes_to_show

\* app.py lines 76-120 and controller.py line 118: the page is rendered, the
\* field is read and validated, the session value is updated when it
\* changes, and start_background_thread is called with the session value as
\* limit: its first statement stores it in system_data.limit.
SubmitLimit(s) ==
    /\ session[s].pc = "render"
    /\ \E input \in LimitInputs \cup {[kind |-> "int",
                                       value |-> session[s].num_processes_to_show]} :
         LET new_limit == ValidatedLimit(input, session[s].num_processes_to_show)
             sess == [session EXCEPT ![s] =
                        [@ EXCEPT !.pc = "check_started",
                                  !.num_processes_to_show = new_limit,
                                  !.input = Some(input),
                                  !.global_info = None, !.processes = None]]
         IN  /\ session' = sess
             /\ system_data' = [system_data EXCEPT !.limit = new_limit]
             /\ heap' = Collect(heap, system_data, collectors, sess)
    /\ UNCHANGED <<model_system, cache, call, lock, thread_started, collectors, user_cache, cycles, runs>>

\* controller.py line 121.
CheckStarted(s) ==
    /\ session[s].pc = "check_started"
    /\ session' = [session EXCEPT ![s] =
                     [@ EXCEPT !.pc = IF thread_started THEN "start" ELSE "start_thread",
                               !.input = None]]
    /\ UNCHANGED <<model_system, cache, call, system_data, lock, thread_started, collectors, user_cache,
                   cycles, heap, runs>>

\* app.py lines 111 and 120 pass interval=2.
AppInterval == 2

NewCollector(interval) ==
    [pc |-> "update", cycle |-> 0, infos |-> None, procs |-> None, interval |-> interval,
     limit_at_start |-> 0]

\* controller.py lines 128-133: the thread is created and started.
StartThread(s) ==
    /\ session[s].pc = "start_thread"
    /\ collectors' = SetKey(collectors, Cardinality(DOMAIN collectors) + 1,
                            NewCollector(AppInterval))
    /\ session' = [session EXCEPT ![s].pc = "set_started"]
    /\ UNCHANGED <<model_system, cache, call, system_data, lock, thread_started, user_cache, cycles, heap, runs>>

\* controller.py line 134; start_background_thread returns and the script ends.
SetStarted(s) ==
    /\ session[s].pc = "set_started"
    /\ thread_started' = TRUE
    /\ session' = [session EXCEPT ![s].pc = "start"]
    /\ UNCHANGED <<model_system, cache, call, system_data, lock, collectors, user_cache, cycles, heap, runs>>

\* A start_background_thread that hands the interval of every call to the
\* loop that is running.
StartBackgroundThreadNewInterval(Intervals, Limits) ==
    \E interval \in Intervals, limit \in Limits :
        /\ system_data' = [system_data EXCEPT !.limit = limit]
        /\ collectors' = IF thread_started
                         THEN [c \in DOMAIN collectors |->
                                  [collectors[c] EXCEPT !.interval = interval]]
                         ELSE SetKey(collectors, Cardinality(DOMAIN collectors) + 1,
                                     NewCollector(interval))
        /\ thread_started' = TRUE
        /\ call' = [fn |-> "start_background_thread", interval |-> interval,
                    limit |-> limit, started_before |-> thread_started,
                    seen_before |-> call.seen, seen |-> call.seen]
        /\ UNCHANGED <<model_system, cache, lock, session, user_cache, cycles, heap, runs>>

\* controller.py lines 101-134: one call start_background_thread(interval,
\* limit) from a single caller, start to return. No other caller runs
\* between its statements; the collector it starts reads neither the flag
\* nor anything the call writes after thread.start().
StartBackgroundThread(Intervals, Limits) ==
    \E interval \in Intervals, limit \in Limits :
        /\ system_data' = [system_data EXCEPT !.limit = limit]
        /\ collectors' = IF thread_started THEN collectors
                         ELSE SetKey(collectors, Cardinality(DOMAIN collectors) + 1,
                                     NewCollector(interval))
        /\ thread_started' = TRUE
        /\ call' = [fn |-> "start_background_thread", interval |-> interval,
                    limit |-> limit, started_before |-> thread_started,
                    seen_before |-> call.seen, seen |-> call.seen]
        /\ UNCHANGED <<model_system, cache, lock, session, user_cache, cycles, heap, runs>>

\* The time model.py is imported at.
ImportTimes == {0}

Init ==
    /\ cache \in {CacheAtImport(t) : t \in ImportTimes}
    /\ call = NoCall
    /\ system_data = SystemDataInit
    /\ lock = Free
    /\ thread_started = FALSE
    /\ collectors = EmptyDict
    /\ session = [s \in Sessions |-> SessionInit]
    /\ user_cache = EmptyDict
    /\ cycles = 0
    /\ runs = 0
    /\ heap = EmptyDict
    /\ model_system \in {[cache |-> CacheAtImport(t), user_cache |-> EmptyDict] :
                            t \in ImportTimes}

Next ==
    \/ \E c \in Threads :
         \/ CollectGlobal(c)
         \/ CollectProcs(c)
         \/ CollectorAcquire(c)
         \/ SwapGlobal(c)
         \/ SwapProcs(c)
         \/ Wake(c)
    \/ \E s \in Sessions :
         \/ SnapshotAcquire(s)
         \/ CopyGlobal(s)
         \/ CopyProcs(s)
         \/ CallerMutatesGlobal(s)
         \/ CallerMutatesList(s)
         \/ CallerMutatesRecord(s)
         \/ SubmitLimit(s)
         \/ CheckStarted(s)
         \/ StartThread(s)
         \/ SetStarted(s)

Spec == Init /\ [][Next]_vars


----------------------------------------------------------------------------
(* model.py called directly: one call after another on the module's cache, *)
(* each with what the kernel shows at that moment and the clock's reading. *)
(* call records the latest call: its inputs, the cache it found (before),  *)
(* what it returned (out), and which counters the latest completed polls   *)
(* had read before it (seen_before) and have read after it (seen).         *)

\* One call get_processes_info(limit), with a kernel and a time from the
\* given sets.
GetProcessesInfo(Kernels, Times, Limits) ==
    \E k \in Kernels, now \in Times, limit \in Limits :
        LET r == get_processes_info(cache, user_cache, k, now, limit)
            io_read == {pid \in SeqToSet(k.dirs) :
                           /\ pid \in DOMAIN r.cache.prev_times
                           /\ k.proc[pid].io.kind = "ok"}
        IN  /\ cache' = r.cache
            /\ user_cache' = r.user_cache
            /\ call' = [fn |-> "get_processes_info", k |-> k, now |-> now, limit |-> limit,
                        before |-> cache, out |-> r, seen_before |-> call.seen,
                        seen |-> IF r.raised THEN call.seen
                                 ELSE [call.seen EXCEPT !.io = io_read]]
            /\ UNCHANGED <<model_system, system_data, lock, thread_started, collectors, session, cycles,
                           runs, heap>>

\* One call get_global_info().
GetGlobalInfo(Globals, Times) ==
    \E g \in Globals, now \in Times :
        LET r == get_global_info(cache, g, now)
        IN  /\ cache' = r.cache
            /\ call' = [fn |-> "get_global_info", g |-> g, now |-> now,
                        before |-> cache, out |-> r, seen_before |-> call.seen,
                        seen |-> IF r.raised THEN call.seen
                                 ELSE [call.seen EXCEPT !.disk = (g.diskstats.kind = "ok")]]
            /\ UNCHANGED <<model_system, system_data, lock, thread_started, collectors, session, user_cache,
                           cycles, runs, heap>>

\* One call get_process_details(pid).
GetProcessDetails(Pids, Details) ==
    \E pid \in Pids, d \in Details :
        LET r == get_process_details(user_cache, pid, d)
        IN  /\ user_cache' = r.user_cache
            /\ call' = [fn |-> "get_process_details", pid |-> pid, d |-> d,
                        before |-> user_cache, out |-> r, seen_before |-> call.seen,
                        seen |-> call.seen]
            /\ UNCHANGED <<model_system, cache, system_data, lock, thread_started, collectors, session,
                           cycles, runs, heap>>

\* One call model_system.get_global_info(), on the cache of that module.
GetGlobalInfoSystem(Globals, Times) ==
    \E g \in Globals, now \in Times :
        LET r == get_global_info_system(model_system.cache, g, now)
        IN  /\ model_system' = [model_system EXCEPT !.cache = r.cache]
            /\ call' = [fn |-> "model_system.get_global_info", g |-> g, now |-> now,
                        before |-> model_system.cache, out |-> r,
                        seen_before |-> call.seen, seen |-> call.seen]
            /\ UNCHANGED <<cache, system_data, lock, thread_started, collectors, session,
                           user_cache, cycles, runs, heap>>

\* How many times each module has read /etc/passwd for each uid, as counted
\* along the calls of get_username_from_uid_local made so far.
ReadsSoFar ==
    IF call.fn \in {"get_username_from_uid_local", "model_system.get_username_from_uid_local"}
    THEN call.reads
    ELSE [module \in {"model", "model_system"} |-> EmptyDict]

ReadsOf(reads, module, uid) == IF uid \in DOMAIN reads[module] THEN reads[module][uid] ELSE 0

\* One call model.get_username_from_uid_local(uid): the file is read when
\* the call opens it and it is there.
GetUsername(Uids, Passwds, Bound) ==
    \E uid \in Uids, passwd \in Passwds :
        LET r == get_username_from_uid_local(user_cache, uid, passwd)
            n == ReadsOf(ReadsSoFar, "model", uid)
        IN  /\ n < Bound
            /\ user_cache' = r.user_cache
            /\ call' = [fn |-> "get_username_from_uid_local", uid |-> uid, passwd |-> passwd,
                        before |-> user_cache, out |-> r,
                        reads |-> IF r.scanned /\ passwd.kind = "ok"
                                  THEN [ReadsSoFar EXCEPT !["model"] = SetKey(@, uid, n + 1)]
                                  ELSE ReadsSoFar,
                        seen_before |-> call.seen, seen |-> call.seen]
            /\ UNCHANGED <<cache, system_data, lock, thread_started, collectors, session,
                           cycles, runs, heap, model_system>>

\* One call model_system.get_username_from_uid_local(uid), as model_file
\* makes it for the owner of a directory entry.
GetUsernameSystem(Uids, Passwds, Bound) ==
    \E uid \in Uids, passwd \in Passwds :
        LET r == get_username_from_uid_local_system(model_system.user_cache, uid, passwd)
            n == ReadsOf(ReadsSoFar, "model_system", uid)
        IN  /\ n < Bound
            /\ model_system' = [model_system EXCEPT !.user_cache = r.user_cache]
            /\ call' = [fn |-> "model_system.get_username_from_uid_local", uid |-> uid,
                        passwd |-> passwd, before |-> model_system.user_cache, out |-> r,
                        reads |-> IF r.scanned /\ passwd.kind = "ok"
                                  THEN [ReadsSoFar EXCEPT !["model_system"] = SetKey(@, uid, n + 1)]
                                  ELSE ReadsSoFar,
                        seen_before |-> call.seen, seen |-> call.seen]
            /\ UNCHANGED <<cache, system_data, lock, thread_started, collectors, session,
                           user_cache, cycles, runs, heap>>

\* One call model_file.get_directory_contents(path).
GetDirectoryContents(Dirs) ==
    \E dir \in Dirs :
        LET r == get_directory_contents(model_system.user_cache, dir)
        IN  /\ model_system' = [model_system EXCEPT !.user_cache = r.user_cache]
            /\ call' = [fn |-> "get_directory_contents", dir |-> dir,
                        before |-> model_system.user_cache, out |-> r,
                        seen_before |-> call.seen, seen |-> call.seen]
            /\ UNCHANGED <<cache, system_data, lock, thread_started, collectors, session,
                           user_cache, cycles, runs, heap>>

\* One call model_file.get_filesystem_info().
GetFilesystemInfo(Mounts, Times) ==
    \E m \in Mounts, now \in Times :
        /\ call' = [fn |-> "get_filesystem_info", m |-> m, now |-> now,
                    out |-> get_filesystem_info(m, now),
                    seen_before |-> call.seen, seen |-> call.seen]
        /\ UNCHANGED <<cache, model_system, system_data, lock, thread_started, collectors,
                       session, user_cache, cycles, runs, heap>>

NominalMemInfo == MemInfo("ok", Some(8192), Some(4096))

NominalStat == [kind |-> "ok", fields |-> <<20, 0, 10, 60, 10, 0, 0, 0, 0, 0>>]

\* Which files of the process the caller of ProcKernel wants a kernel for.
ProcKernel(dirs, proc) ==
    [meminfo |-> NominalMemInfo, listing |-> "ok", dirs |-> dirs, proc |-> proc,
     passwd |-> Passwd]

(* Sorting and truncation: three processes enumerated in any order; the    *)
(* second has more ticks than the first or as many, the third has fewer or *)
(* cannot be read.                                                         *)

\* The largest limit asked.
MaxLimit == 3

SortPids == {1, 2, 3}

SortProc(ticks2, files3) ==
    [pid \in SortPids |->
        IF pid = 1 THEN Readable(500, 0, 0)
        ELSE IF pid = 2 THEN Readable(ticks2, 0, 0)
        ELSE files3]

SortKernels ==
    {ProcKernel(dirs, SortProc(ticks2, files3)) :
        dirs \in Perms(SortPids),
        ticks2 \in {500, 2000},
        files3 \in {Readable(100, 0, 0), ProcFiles("nf", 0, "ok", "ok", 0, 0)}}

SortTimes == {2000}

SortLimits == 1..MaxLimit

SortNext == GetProcessesInfo(SortKernels, SortTimes, SortLimits)

SpecSort == Init /\ [][SortNext]_vars

(* Eviction: two processes that come and go, each readable or failing at   *)
(* one of its files, and the two failures that end the call.               *)

EvictPids == {1, 2}

EvictFiles(pid) ==
    {Readable(pid * 500, 1000, 0),
     ProcFiles("nf", 0, "ok", "ok", 0, 0),
     ProcFiles("ok", pid * 500, "nf", "ok", 0, 0),
     ProcFiles("ok", pid * 500, "perm", "ok", 0, 0),
     ProcFiles("bad", pid * 500 + 1, "ok", "ok", 0, 0),
     ProcFiles("ok", pid * 500, "ok", "err", 0, 0)}

EvictKernels ==
    {ProcKernel(dirs, [pid \in EvictPids |-> IF pid = 1 THEN files1 ELSE files2]) :
        dirs \in Orders(EvictPids), files1 \in EvictFiles(1), files2 \in EvictFiles(2)}
    \cup {[ProcKernel(<<1, 2>>, [pid \in EvictPids |-> Readable(pid * 500, 1000, 0)])
              EXCEPT !.listing = "error"],
          [ProcKernel(<<1, 2>>, [pid \in EvictPids |-> Readable(pid * 500, 1000, 0)])
              EXCEPT !.meminfo = MemInfo("perm", None, None)]}

EvictTimes == {2000}

EvictNext == GetProcessesInfo(EvictKernels, EvictTimes, {DefaultLimit})

SpecEvict == Init /\ [][EvictNext]_vars

(* Rates: one disk and one process whose cumulative counters take a few    *)
(* values, polled at times 1 ms, 100 ms, 101 ms and a second apart.        *)

Disk(sectors_read, sectors_written) ==
    [kind |-> "ok",
     devices |-> << [name |-> <<"s", "d", "a">>, sectors_read |-> Some(sectors_read),
                     sectors_written |-> Some(sectors_written)] >>]

GlobalKernel(stat, meminfo, diskstats) ==
    [stat |-> stat, meminfo |-> meminfo, listing |-> "ok", dirs |-> {1},
     proc |-> [pid \in {1} |-> Readable(500, 0, 0)], diskstats |-> diskstats]

RateGlobals ==
    {GlobalKernel(NominalStat, NominalMemInfo, Disk(c[1], c[2])) :
        c \in {<<0, 0>>, <<1, 2>>, <<3, 2>>}}
    \cup {GlobalKernel(NominalStat, NominalMemInfo, [kind |-> "nf", devices |-> <<>>])}

RateKernels ==
    {ProcKernel(<<1>>, [pid \in {1} |-> ProcFiles("ok", 500, "ok", "ok", c[1], c[2])]) :
        c \in {<<0, 0>>, <<1000, 500>>, <<4096, 500>>}}
    \cup {ProcKernel(<<1>>, [pid \in {1} |-> ProcFiles("ok", 500, "ok", kind, 0, 0)]) :
              kind \in {"nf", "perm", "bad"}}
    \* pid 1 taken by a new process: fewer ticks, counters back at 0
    \cup {ProcKernel(<<1>>, [pid \in {1} |-> ProcFiles("ok", 200, "ok", "ok", 0, 0)])}

RateTimes == {1000, 1001, 1101}

RateNext ==
    \/ GetGlobalInfo(RateGlobals, RateTimes)
    \/ GetProcessesInfo(RateKernels, RateTimes, {DefaultLimit})

SpecRates == Init /\ [][RateNext]_vars

(* Percentages: CPU tick counters that grow, that go back, and whose idle  *)
(* part grows more than their total; memory tables with MemAvailable below *)
(* and above MemTotal, with MemTotal zero, and with MemFree only; each of   *)
(* the three files missing, malformed or closed to the reader.             *)

PctStats ==
    {[kind |-> "ok", fields |-> f] :
        f \in {<<50, 0, 0, 50, 0, 0, 0, 0>>,      \* total 100, idle 50
               <<60, 0, 0, 50, 0, 0, 0, 0>>,      \* total 110, idle 50
               <<40, 0, 0, 70, 0, 0, 0, 0>>,      \* total 110, idle 70: user went back
               <<30, 0, 10, 40, 20, 0, 0, 0, 5, 5>>, \* total 110, iowait and guest time
               <<50, 0, 0, 50, 0>>}}              \* too few fields for line 163
    \cup {[kind |-> k, fields |-> <<>>] : k \in {"nf", "perm"}}

PctMemInfos ==
    {MemInfo("ok", Some(8192), Some(4096)),
     MemInfo("ok", Some(4096), Some(8192)),
     MemInfo("ok", Some(0), Some(0)),
     MemInfo("ok", Some(0), Some(4096)),
     [MemInfo("ok", Some(8192), None) EXCEPT !.MemFree = Some(2048)],
     [MemInfo("ok", Some(8192), Some(4096)) EXCEPT !.SwapTotal = Some(2048),
                                                   !.SwapFree = Some(512)],
     [MemInfo("ok", Some(8192), Some(4096)) EXCEPT !.SwapTotal = Some(0),
                                                   !.SwapFree = Some(0)],
     MemInfo("nf", None, None), MemInfo("bad", None, None), MemInfo("perm", None, None)}

PctGlobals ==
    {GlobalKernel(stat, meminfo, Disk(0, 0)) : stat \in PctStats, meminfo \in PctMemInfos}
    \cup {GlobalKernel(NominalStat, NominalMemInfo, [kind |-> k, devices |-> <<>>]) :
              k \in {"nf", "perm"}}

PctTimes == {2000}

PctNext == GetGlobalInfo(PctGlobals, PctTimes)

SpecPct == Init /\ [][PctNext]_vars

(* Details: a pid whose directory exists or not, and whose files, when     *)
(* opened, are there, are gone or are not readable.                        *)

DetailStatus(kind, uid) ==
    [kind |-> kind, Name |-> "proc", State |-> "S (sleeping)", Uid |-> uid,
     Threads |-> 2, VmRSS |-> 2048]

DetailStat(kind) ==
    IF kind = "ok" THEN [kind |-> kind, assigned |-> 4, ticks |-> 500, nice |-> 0, starttime |-> 300]
    ELSE [kind |-> kind, assigned |-> 0, ticks |-> 0, nice |-> 0, starttime |-> 0]

\* A stat line that ends after stime: utime and stime are converted, the
\* conversion of nice raises IndexError.
DetailStatEndsAfterStime ==
    [kind |-> "short", assigned |-> 2, ticks |-> 500, nice |-> 0, starttime |-> 0]

DetailInputs ==
    {[exists |-> e, status |-> DetailStatus(sk, uid), stat |-> st,
      btime |-> bt, passwd |-> pw] :
        e \in BOOLEAN,
        sk \in {"ok", "nf", "perm"},
        uid \in {None, Some(0)},
        st \in {DetailStat(tk) : tk \in {"ok", "nf", "short", "bad", "perm"}}
                  \cup {DetailStatEndsAfterStime},
        bt \in {None, Some(1000)},
        pw \in {Passwd, [kind |-> "perm", entries |-> EmptyDict]}}

DetailPids == {1}

DetailsNext == GetProcessDetails(DetailPids, DetailInputs)

SpecDetails == Init /\ [][DetailsNext]_vars

(* Disk devices: the device table holds one device, or the five devices    *)
(* sda, sda1, nvme0n1, nvme0n1p1 and loop0; the i-th name of DiskNames has *)
(* read i sectors and written 2i, and one table has a relevant device      *)
(* whose sector field is not a number. Both copies of get_global_info are  *)
(* called.                                                                 *)

DiskNames ==
    << <<"s", "d", "a">>, <<"s", "d", "a", "1">>,
       <<"n", "v", "m", "e", "0", "n", "1">>, <<"n", "v", "m", "e", "0", "n", "1", "p", "1">>,
       <<"l", "o", "o", "p", "0">>,
       <<"h", "d", "b">>, <<"v", "d", "a">>, <<"x", "v", "d", "a">>, <<"x", "v", "d", "a", "2">>,
       <<"s", "d", "p">>, <<"s", "r", "0">>, <<"r", "a", "m", "0">>, <<"d", "m", "-", "0">>,
       <<"m", "d", "0">>, <<"n", "v", "m", "e", "1", "n", "1">>, <<"s", "d", "a", "b", "3">> >>

Device(i) == [name |-> DiskNames[i], sectors_read |-> Some(i), sectors_written |-> Some(2 * i)]

ExampleDevices == <<Device(1), Device(2), Device(3), Device(4), Device(5)>>

DiskGlobals ==
    LET tables == {<<Device(i)>> : i \in DOMAIN DiskNames}
                  \cup {ExampleDevices}
                  \cup {<<[Device(1) EXCEPT !.sectors_written = None], Device(6)>>}
    IN  {GlobalKernel(NominalStat, NominalMemInfo, [kind |-> "ok", devices |-> d]) : d \in tables}

DiskNext ==
    \/ GetGlobalInfo(DiskGlobals, {1000})
    \/ GetGlobalInfoSystem(DiskGlobals, {1000})

SpecDisk == Init /\ [][DiskNext]_vars

(* The user database: two uids are looked up, in both modules, while       *)
(* /etc/passwd changes between the calls: root renamed, a user added, no   *)
(* user at all, the file missing or unreadable.                            *)

\* How many reads of /etc/passwd for one uid the model follows.
MaxReads == 2

UserPasswds ==
    {[kind |-> "ok", entries |-> [u \in {0} |-> "root"]],
     [kind |-> "ok", entries |-> [u \in {0, 1000} |-> IF u = 0 THEN "admin" ELSE "joao"]],
     [kind |-> "ok", entries |-> EmptyDict],
     [kind |-> "nf", entries |-> EmptyDict],
     [kind |-> "perm", entries |-> EmptyDict]}

UsersNext ==
    \/ GetUsername({0, 1000}, UserPasswds, MaxReads)
    \/ GetUsernameSystem({0, 1000}, UserPasswds, MaxReads)

SpecUsers == Init /\ [][UsersNext]_vars

(* Stat parsing: one process whose command name is one word (bash) or two  *)
(* (Web Content), with two values of utime, of nice and of starttime; what  *)
(* the two functions are given is what they parse from the text of the     *)
(* stat file, which the input keeps beside it (stat_file).                 *)

StatFiles ==
    {StatFile(1, comm, utime, 50, nice, starttime) :
        comm \in {<<"bash">>, <<"Web", "Content">>}, utime \in {100, 300},
        nice \in {0, 5}, starttime \in {300, 400}}

StatNext ==
    \/ GetProcessesInfo(
           {ProcKernel(<<1>>, [pid \in {1} |->
                [stat |-> ParseStat(StatTokens(f)),
                 status |-> [kind |-> "ok", uid |-> 0, vmrss |-> 2048, threads |-> 2],
                 io |-> [kind |-> "ok", read_bytes |-> 0, write_bytes |-> 0],
                 stat_file |-> f]]) : f \in StatFiles},
           {2000}, {DefaultLimit})
    \/ GetProcessDetails(
           {1},
           {[exists |-> TRUE, status |-> DetailStatus("ok", Some(0)),
             stat |-> ParseStatDetails(StatTokens(f)), btime |-> Some(1000),
             passwd |-> Passwd, stat_file |-> f] : f \in StatFiles})

SpecStat == Init /\ [][StatNext]_vars

(* Files: directories of up to three children, each a regular file, a      *)
(* directory, or a child whose stat fails in one of the three ways; mount  *)
(* tables of up to three lines, well formed, ignored, or short of fields.  *)

MaxChildren == 3

FileNext ==
    LET Stat(kind, filetype, uid) ==
            [kind |-> kind, filetype |-> filetype, size |-> 10, mode |-> 33188, uid |-> uid]
        Stats == {Stat("ok", "reg", 0), Stat("ok", "dir", 1000), Stat("nf", "", 0),
                  Stat("perm", "", 0), Stat("err", "", 0)}
        Names == <<"a", "b", "c", "d">>
        Children == UNION {[1..n -> Stats] : n \in 0..MaxChildren}
        Dirs == {[kind |-> "dir", passwd |-> Passwd,
                  children |-> [i \in DOMAIN c |-> [name |-> Names[i], stat |-> c[i]]]] :
                     c \in Children}
                \cup {[kind |-> k, passwd |-> Passwd, children |-> <<>>] :
                         k \in {"notdir", "perm", "err"}}
        Root == <<"/">>
        Home == <<"/", "h", "o", "m", "e">>
        Mnt  == <<"/", "m", "n", "t">>
        Proc == <<"/", "p", "r", "o", "c">>
        Lines == {<< <<"/", "d", "e", "v", "/", "s", "d", "a", "1">>, Root, "ext4", "rw", "0", "0">>,
                  << <<"/", "d", "e", "v", "/", "s", "d", "a", "2">>, Home, "ext4", "rw", "0", "0">>,
                  << <<"p", "r", "o", "c">>, Proc, "proc", "rw", "0", "0">>,
                  << <<"/", "d", "e", "v", "/", "s", "d", "b", "1">>, Mnt >>,
                  << <<"/", "d", "e", "v", "/", "s", "d", "b", "1">> >>}
        Vfs(kind, f_blocks) ==
            [kind |-> kind, f_blocks |-> f_blocks, f_frsize |-> 1024, f_bavail |-> 25]
        Mounts == {[kind |-> "ok", lines |-> l,
                    statvfs |-> [mp \in {Root, Home, Mnt, Proc} |->
                                    IF mp = Home THEN home ELSE Vfs("ok", 100)]] :
                      l \in UNION {[1..n -> Lines] : n \in 0..3},
                      home \in {Vfs("ok", 50), Vfs("perm", 0), Vfs("ok", 0)}}
                  \cup {[kind |-> k, lines |-> <<>>, statvfs |-> <<>>] : k \in {"nf", "err"}}
    IN  \/ GetDirectoryContents(Dirs)
        \/ GetFilesystemInfo(Mounts, {2000})

SpecFile == Init /\ [][FileNext]_vars

(* Starting: start_background_thread called again and again with intervals *)
(* of 2 and 5 seconds and limits of 5 and 10, while the collector the      *)
(* first call started goes through its cycles.                             *)

StartNext ==
    \/ StartBackgroundThread({2, 5}, {5, DefaultLimit})
    \/ \E c \in Threads :
         \/ CollectGlobal(c)
         \/ CollectProcs(c)
         \/ CollectorAcquire(c)
         \/ SwapGlobal(c)
         \/ SwapProcs(c)
         \/ Wake(c)

SpecStart == Init /\ [][StartNext]_vars

(* The collector started by start_background_thread and the sessions that  *)
(* read the store with get_snapshot, under fair scheduling.                *)

\* A step of collector c that waits for nothing: get_global_info is called
\* (and is assumed to return), the two assignments are made, time.sleep
\* returns. A thread that is scheduled takes it.
CollectorStep(c) ==
    CollectGlobal(c) \/ SwapGlobal(c) \/ SwapProcs(c) \/ Wake(c)

\* Collector c is inside its call get_processes_info (controller.py line 44).
InProcessesCall(c) == c \in DOMAIN collectors /\ collectors[c].pc = "procs"

\* Fair scheduling, and collection calls that return. A thread that can
\* run does run: the collectors go through their loop, and a session that
\* holds the lock finishes get_snapshot (lines 75-77 wait for nothing). A
\* collector blocked at "with self.lock" (line 50) gets the lock if it is
\* released again and again. No collector stays in get_processes_info for
\* ever: the step that leaves the call is possible whenever the collector
\* is in it, so this is weak fairness of CollectProcs(c). Nothing obliges a
\* session to ask for a snapshot.
Fairness ==
    /\ \A c \in Threads : /\ WF_vars(CollectorStep(c))
                          /\ SF_vars(CollectorAcquire(c))
                          /\ []<>(~InProcessesCall(c))
    /\ \A s \in Sessions : WF_vars(CopyGlobal(s) \/ CopyProcs(s))

LiveNext ==
    \/ StartBackgroundThread({AppInterval}, {5, DefaultLimit})
    \/ \E c \in Threads :
         \/ CollectGlobal(c)
         \/ CollectProcs(c)
         \/ CollectorAcquire(c)
         \/ SwapGlobal(c)
         \/ SwapProcs(c)
         \/ Wake(c)
    \/ \E s \in Sessions :
         \/ SnapshotAcquire(s)
         \/ CopyGlobal(s)
         \/ CopyProcs(s)

SpecLive == Init /\ [][LiveNext]_vars /\ Fairness

\* The same with readers that wait: a session at the start of a run has
\* called get_snapshot (app.py line 47) and is at its "with self.lock"; it
\* gets the lock if the lock is released again and again.
FairReaders == \A s \in Sessions : SF_vars(SnapshotAcquire(s))

SpecLiveReaders == Init /\ [][LiveNext]_vars /\ Fairness /\ FairReaders

----------------------------------------------------------------------------
(* Properties of the store and of the threads around it, under Spec.       *)

\* What the store's process list holds.
StoreRecords == Deref(heap, system_data.processes.items)

\* C1: every pair get_snapshot returns is made of a global info and a
\* process list that the same execution of update() published (or of the
\* two defaults of the constructor), however the calls interleave with the
\* collectors; and outside a swap the store itself holds such a pair.
C1_SnapshotPairFromOneCycle ==
    /\ \A s \in Sessions :
         session[s].processes # None =>
            Val(session[s].global_info).cycle = Val(session[s].processes).cycle
    /\ lock = Free => system_data.global_info.cycle = system_data.processes.cycle

\* C1 witness: a reader is between its two copies, holding the global info
\* of a published cycle, while a collector with a newer pair waits for the
\* lock.
C1_ReaderMidCopyCollectorWaiting ==
    \E s \in Sessions, c \in DOMAIN collectors :
        /\ session[s].pc = "copy_procs"
        /\ Val(session[s].global_info).cycle >= 1
        /\ collectors[c].pc = "acquire"
        /\ collectors[c].cycle > Val(session[s].global_info).cycle

\* C2 (as claimed): nothing a caller does to what get_snapshot returned
\* changes what the store holds: the records of the store's list are as the
\* collector built them.
C2_StoreRecordsUntouchedByCallers ==
    \A i \in DOMAIN StoreRecords : StoreRecords[i].name # "mutated"

\* C3 (as claimed): at most one collector loop exists, whatever the calls of
\* start_background_thread.
C3_AtMostOneCollector == Cardinality(DOMAIN collectors) <= 1

\* C4: a cycle that ends in an exception (the collector leaves its
\* collecting calls without a pair to publish) leaves the collector asleep
\* in its loop, from where it runs the next cycle, and leaves the published
\* global info, process list and records exactly as they were.
C4_FailedCycleKeepsLoopAndStore ==
    [][\A c \in DOMAIN collectors :
          (/\ collectors[c].pc \in {"update", "procs"}
           /\ collectors'[c].pc \notin {"update", "procs", "acquire"})
          => /\ collectors'[c].pc = "sleep"
             /\ system_data' = system_data
             /\ Deref(heap', system_data'.processes.items) = StoreRecords]_vars

\* C4 witness: the only collector has begun two cycles and sleeps, the store
\* still holds the pair of the first one, and a reader holds that pair.
C4_SecondCycleFailedFirstStillRead ==
    /\ DOMAIN collectors = {1}
    /\ collectors[1].pc = "sleep"
    /\ cycles = 2
    /\ system_data.global_info.cycle = 1
    /\ system_data.processes.cycle = 1
    /\ \E s \in Sessions :
         /\ session[s].pc = "render"
         /\ Val(session[s].processes).cycle = 1

\* The step in which the script of session s, given an input that is an
\* integer below 1, ends its validation and calls start_background_thread.
RejectedRequest(s) ==
    /\ session[s].pc = "render"
    /\ session'[s].pc = "check_started"
    /\ Val(session'[s].input).kind = "int"
    /\ Val(session'[s].input).value < 1

\* C10 (as claimed): a request for a limit of 0 or less leaves
\* system_data.limit as it was.
C10_RejectedRequestKeepsStoreLimit ==
    [][\A s \in Sessions : RejectedRequest(s) => system_data'.limit = system_data.limit]_vars

\* C10 (amended): a request for a limit of 0 or less leaves the session's
\* num_processes_to_show as it was and sets system_data.limit to that
\* session's value, which is at least 1; the rejected value is never stored.
C10_RejectedRequestStoresSessionLimit ==
    [][\A s \in Sessions :
          RejectedRequest(s) =>
             /\ session'[s].num_processes_to_show = session[s].num_processes_to_show
             /\ system_data'.limit = session[s].num_processes_to_show
             /\ system_data'.limit >= 1]_vars

\* C10 witness: a session whose own limit is still 10 has just had 0 or a
\* negative number rejected, after another session had set the store's
\* limit to 1: the store's limit is 10 again.
C10_RejectedAfterOtherSessionsChange ==
    \E s, t \in Sessions :
        /\ s # t
        /\ session[s].pc = "check_started"
        /\ Val(session[s].input).kind = "int"
        /\ Val(session[s].input).value < 1
        /\ session[s].num_processes_to_show = DefaultLimit
        /\ session[t].num_processes_to_show = 1
        /\ system_data.limit = DefaultLimit

----------------------------------------------------------------------------
(* Properties of the functions of model.py, on the latest call.            *)

\* The latest call was a get_processes_info that returned.
PolledProcesses == call.fn = "get_processes_info" /\ ~call.out.raised

\* The latest call was a get_global_info that returned.
PolledGlobal == call.fn = "get_global_info" /\ ~call.out.raised

\* C5: after a completed get_processes_info, prev_times and
\* prev_proc_io_stats have keys only among the pids that call enumerated; so
\* a pid that had entries before the call and was not enumerated has none.
C5_StaleEntriesEvicted ==
    PolledProcesses =>
        /\ DOMAIN cache.prev_times \subseteq SeqToSet(call.k.dirs)
        /\ DOMAIN cache.prev_proc_io_stats \subseteq SeqToSet(call.k.dirs)

\* C5 witness: a completed call that enumerated some pid but not one that
\* had an entry in both tables; that pid has none left.
C5_VanishedPidEvicted ==
    /\ PolledProcesses
    /\ call.k.dirs # <<>>
    /\ \E pid \in DOMAIN call.before.prev_times \cap DOMAIN call.before.prev_proc_io_stats :
         /\ pid \notin SeqToSet(call.k.dirs)
         /\ pid \notin DOMAIN cache.prev_times
         /\ pid \notin DOMAIN cache.prev_proc_io_stats

\* (c2 - c1) / t in hundredths of a byte per second, t in milliseconds,
\* rounded as the published values are.
RateOf(c1, c2, t) == Round2((c2 - c1) * 1000, t)

\* The latest call polled the disk counters and so did the completed poll
\* before it.
DiskPolledTwice ==
    /\ PolledGlobal
    /\ call.seen_before.disk
    /\ call.g.diskstats.kind = "ok"

DiskElapsed == call.now - call.before.prev_disk_io_timestamp

DiskBefore == Val(call.before.prev_disk_stats)

DiskNow ==
    [total_reads_bytes  |-> Val(call.g.diskstats.devices[1].sectors_read) * SECTOR_SIZE,
     total_writes_bytes |-> Val(call.g.diskstats.devices[1].sectors_written) * SECTOR_SIZE]

\* The latest call read the io counters of pid 1 and so did the completed
\* poll before it.
IoPolledTwice ==
    /\ PolledProcesses
    /\ 1 \in call.seen_before.io
    /\ 1 \in call.seen.io

IoElapsed == call.now - call.before.prev_timestamp

IoBefore == call.before.prev_proc_io_stats[1]

IoNow == call.k.proc[1].io

\* C6 (as claimed): between two consecutive polls with counters c1 <= c2 and
\* elapsed time t > 0, each published disk and per-process I/O rate is
\* (c2 - c1) / t (to the two decimals published) and is not negative.
C6_RateIsDeltaOverElapsed ==
    /\ (DiskPolledTwice /\ DiskElapsed > 0) =>
          /\ DiskBefore.total_reads_bytes <= DiskNow.total_reads_bytes =>
                call.out.info.disk_read_bps =
                    RateOf(DiskBefore.total_reads_bytes, DiskNow.total_reads_bytes, DiskElapsed)
          /\ DiskBefore.total_writes_bytes <= DiskNow.total_writes_bytes =>
                call.out.info.disk_write_bps =
                    RateOf(DiskBefore.total_writes_bytes, DiskNow.total_writes_bytes,
                           DiskElapsed)
    /\ (IoPolledTwice /\ IoElapsed > 0) =>
          /\ IoBefore.read_bytes <= IoNow.read_bytes =>
                call.out.result[1].io_read_bps =
                    RateOf(IoBefore.read_bytes, IoNow.read_bytes, IoElapsed)
          /\ IoBefore.write_bytes <= IoNow.write_bytes =>
                call.out.result[1].io_write_bps =
                    RateOf(IoBefore.write_bytes, IoNow.write_bytes, IoElapsed)

\* The time the disk rates divide by, when they are computed at all.
DiskSettled == DiskElapsed > 100

\* The time the per-process rates divide by: the elapsed time, or one
\* second when no more than a millisecond has elapsed.
IoDivisor == IF IoElapsed > 1 THEN IoElapsed ELSE 1000

\* C6 (amended): between two consecutive polls with counters c1 <= c2 and
\* elapsed time t > 0, a published disk rate is (c2 - c1) / t rounded to two
\* decimals when t > 0.1 s and 0 when t <= 0.1 s; a published per-process
\* I/O rate is (c2 - c1) / t rounded to two decimals when t > 0.001 s and
\* (c2 - c1) / 1 s when t <= 0.001 s; no published rate is negative.
C6_RateIsDeltaOverSettledElapsed ==
    /\ (DiskPolledTwice /\ DiskElapsed > 0) =>
          /\ DiskBefore.total_reads_bytes <= DiskNow.total_reads_bytes =>
                call.out.info.disk_read_bps =
                    IF DiskSettled
                    THEN RateOf(DiskBefore.total_reads_bytes, DiskNow.total_reads_bytes,
                                DiskElapsed)
                    ELSE 0
          /\ DiskBefore.total_writes_bytes <= DiskNow.total_writes_bytes =>
                call.out.info.disk_write_bps =
                    IF DiskSettled
                    THEN RateOf(DiskBefore.total_writes_bytes, DiskNow.total_writes_bytes,
                                DiskElapsed)
                    ELSE 0
    /\ (IoPolledTwice /\ IoElapsed > 0) =>
          /\ IoBefore.read_bytes <= IoNow.read_bytes =>
                call.out.result[1].io_read_bps =
                    RateOf(IoBefore.read_bytes, IoNow.read_bytes, IoDivisor)
          /\ IoBefore.write_bytes <= IoNow.write_bytes =>
                call.out.result[1].io_write_bps =
                    RateOf(IoBefore.write_bytes, IoNow.write_bytes, IoDivisor)
    /\ PolledGlobal => call.out.info.disk_read_bps >= 0 /\ call.out.info.disk_write_bps >= 0
    /\ PolledProcesses =>
          \A i \in DOMAIN call.out.result :
              call.out.result[i].io_read_bps >= 0 /\ call.out.result[i].io_write_bps >= 0

\* C6 witness: two disk polls 101 ms apart between which the read counter
\* grew, and the rate published for it: 1024 bytes in 0.101 s.
C6_DiskRatePublished ==
    /\ DiskPolledTwice
    /\ DiskElapsed = 101
    /\ DiskBefore.total_reads_bytes = 1 * SECTOR_SIZE
    /\ DiskNow.total_reads_bytes = 3 * SECTOR_SIZE
    /\ call.out.info.disk_read_bps = 1013861

\* C7 (as claimed): the four percentages of every record get_global_info
\* returns lie in [0, 100] (here in hundredths), whatever the counters.
C7_PercentagesWithinRange ==
    PolledGlobal =>
        /\ call.out.info.cpu_used_pct \in 0..10000
        /\ call.out.info.cpu_ocioso_pct \in 0..10000
        /\ call.out.info.mem_used_pct \in 0..10000
        /\ call.out.info.mem_free_pct \in 0..10000

\* The processes the latest get_processes_info read: enumerated, with stat
\* and status readable.
ReadPids ==
    {pid \in SeqToSet(call.k.dirs) :
        call.k.proc[pid].stat.kind = "ok" /\ call.k.proc[pid].status.kind = "ok"}

\* Cumulative CPU time of a process in hundredths of a second.
CpuTimeOf(pid) == (call.k.proc[pid].stat.ticks * 100) \div CLK_TCK

\* Processes with cpu_time 5, 20 and 1, enumerated in that order, limit 2.
SortExample ==
    /\ PolledProcesses
    /\ call.k.dirs = <<1, 2, 3>>
    /\ call.k.proc[2] = Readable(2000, 0, 0)
    /\ call.k.proc[3] = Readable(100, 0, 0)
    /\ call.limit = 2

\* C8: for a positive limit the returned list is in non-increasing order of
\* cpu_time, has min(limit, number of processes read) records, one per
\* process, each with that process's cpu_time, and no process left out has
\* more cpu_time than one returned; cpu_time 5, 20, 1 with limit 2 give
\* [20, 5].
C8_SortedTopByCpuTime ==
    (PolledProcesses /\ call.limit > 0) =>
        LET res == call.out.result
        IN  /\ Len(res) = Min(call.limit, Cardinality(ReadPids))
            /\ \A i, j \in DOMAIN res : i < j => res[i].cpu_time >= res[j].cpu_time
            /\ \A i, j \in DOMAIN res : i # j => res[i].pid # res[j].pid
            /\ \A i \in DOMAIN res :
                   /\ res[i].pid \in ReadPids
                   /\ res[i].cpu_time = CpuTimeOf(res[i].pid)
            /\ \A pid \in ReadPids \ {res[i].pid : i \in DOMAIN res} :
                   \A i \in DOMAIN res : res[i].cpu_time >= CpuTimeOf(pid)
            /\ SortExample => [i \in DOMAIN res |-> res[i].cpu_time] = <<2000, 500>>

\* C8 witness: the example has been polled and gave the pids 2 and 1.
C8_ExamplePolled ==
    /\ SortExample
    /\ [i \in DOMAIN call.out.result |-> call.out.result[i].pid] = <<2, 1>>

\* C9: get_process_details never raises, and returns None for a pid whose
\* directory does not exist or whose status file is gone when it is opened
\* after the existence check.
C9_MissingPidIsNotFound ==
    call.fn = "get_process_details" =>
        /\ ~call.out.raised
        /\ (~call.d.exists \/ call.d.status.kind = "nf") =>
               ~call.out.found /\ call.out.details = None

\* C9 witness: the directory existed at the check, the status file was gone
\* at the read, and the call returned None.
C9_VanishedAfterCheck ==
    /\ call.fn = "get_process_details"
    /\ call.d.exists
    /\ call.d.status.kind = "nf"
    /\ ~call.out.found

----------------------------------------------------------------------------
(* C11: the device filter.                                                 *)

\* The filter as it is stated: a known prefix with no digit after it, or
\* nvme with no "p" after it, and none of the excluded kinds.
StatedRelevant(name) ==
    /\ \/ \E prefix \in {<<"s", "d">>, <<"h", "d">>, <<"v", "d">>, <<"x", "v", "d">>} :
              /\ StartsWith(name, prefix)
              /\ \A n \in (Len(prefix) + 1)..Len(name) : name[n] \notin Digits
       \/ /\ StartsWith(name, <<"n", "v", "m", "e">>)
          /\ \A n \in 5..Len(name) : name[n] # "p"
    /\ ~ \E x \in {<<"l", "o", "o", "p">>, <<"r", "a", "m">>, <<"d", "m", "-">>, <<"s", "r">>} :
            StartsWith(name, x)

RECURSIVE StatedSectors(_)
\* The sectors of the devices of a table that the stated filter keeps and
\* whose two sector fields are numbers.
StatedSectors(devices) ==
    IF devices = <<>> THEN [reads |-> 0, writes |-> 0]
    ELSE LET d == Head(devices)
             t == StatedSectors(Tail(devices))
             kept == StatedRelevant(d.name) /\ d.sectors_read # None /\ d.sectors_written # None
         IN  [reads  |-> t.reads + (IF kept THEN Val(d.sectors_read) ELSE 0),
              writes |-> t.writes + (IF kept THEN Val(d.sectors_written) ELSE 0)]

DiskCall ==
    /\ call.fn \in {"get_global_info", "model_system.get_global_info"}
    /\ ~call.out.raised
    /\ call.g.diskstats.kind = "ok"

\* C11: after a call of either copy of get_global_info, the aggregate the
\* call stored is the sectors (times the sector size) of exactly the devices
\* of the table that the stated filter keeps; for sda, sda1, nvme0n1,
\* nvme0n1p1 and loop0 that is sda and nvme0n1; and the two copies classify
\* every name of the table the same way.
C11_AggregateIsStatedFilter ==
    DiskCall =>
        LET stored == Val(call.out.cache.prev_disk_stats)
            stated == StatedSectors(call.g.diskstats.devices)
        IN  /\ stored.total_reads_bytes = stated.reads * SECTOR_SIZE
            /\ stored.total_writes_bytes = stated.writes * SECTOR_SIZE
            /\ call.g.diskstats.devices = ExampleDevices =>
                   /\ stored.total_reads_bytes = (1 + 3) * SECTOR_SIZE
                   /\ stored.total_writes_bytes = (2 + 6) * SECTOR_SIZE
            /\ \A i \in DOMAIN call.g.diskstats.devices :
                   IsRelevantDevice(call.g.diskstats.devices[i].name)
                       = IsRelevantDeviceSystem(call.g.diskstats.devices[i].name)

\* The copy of model_system has aggregated the five devices of the example
\* after the copy of model.py had.
C11_ExampleAggregatedByBothCopies ==
    /\ DiskCall
    /\ call.fn = "model_system.get_global_info"
    /\ call.g.diskstats.devices = ExampleDevices
    /\ cache.prev_disk_stats
           = Some([total_reads_bytes |-> 4 * SECTOR_SIZE, total_writes_bytes |-> 8 * SECTOR_SIZE])
    /\ model_system.cache.prev_disk_stats = cache.prev_disk_stats

----------------------------------------------------------------------------
(* C13: the first observation of an entity.                                *)

\* C13: a record published for a pid that had no entry in prev_times before
\* the poll has cpu_percent 0, one published for a pid that had no entry in
\* prev_proc_io_stats has both I/O rates 0, the first global poll (no
\* previous disk aggregate) publishes disk rates 0, and the current counters
\* are recorded.
C13_FirstObservationIsZero ==
    /\ (call.fn = "get_processes_info" /\ ~call.out.raised) =>
           \A i \in DOMAIN call.out.result :
               LET rec == call.out.result[i]
               IN  /\ rec.pid \notin DOMAIN call.before.prev_times =>
                          /\ rec.cpu_percent = 0
                          /\ call.out.cache.prev_times[rec.pid] = call.k.proc[rec.pid].stat.ticks
                   /\ rec.pid \notin DOMAIN call.before.prev_proc_io_stats =>
                          /\ rec.io_read_bps = 0
                          /\ rec.io_write_bps = 0
    /\ (call.fn = "get_global_info" /\ ~call.out.raised
           /\ call.before.prev_disk_stats = None) =>
           /\ call.out.info.disk_read_bps = 0
           /\ call.out.info.disk_write_bps = 0
           /\ call.out.cache.prev_disk_stats # None

----------------------------------------------------------------------------
(* C14: the system CPU percentage.                                         *)

RECURSIVE SumTo(_, _)
SumTo(fields, i) == IF i = 0 THEN 0 ELSE fields[i] + SumTo(fields, i - 1)

\* The latest get_global_info call returned and read a cpu line of at least
\* eight counters.
CpuPolled ==
    /\ PolledGlobal
    /\ call.g.stat.kind = "ok"
    /\ Len(call.g.stat.fields) >= 8

CpuTotalNow == SumTo(call.g.stat.fields, Len(call.g.stat.fields))

CpuIdleNow == call.g.stat.fields[4] + call.g.stat.fields[5]

\* A previous aggregate with a positive total was cached before the call.
CpuPriorCached ==
    /\ call.before.prev_sys_cpu_times # None
    /\ Val(call.before.prev_sys_cpu_times).total > 0

\* The percentage from the tick deltas between the cached and the current
\* sample (0 when the total has no delta).
CpuDeltaPct ==
    LET total_diff  == CpuTotalNow - Val(call.before.prev_sys_cpu_times).total
        ocioso_diff == CpuIdleNow - Val(call.before.prev_sys_cpu_times).ocioso
    IN  IF total_diff > 0 THEN Round2((total_diff - ocioso_diff) * 100, total_diff) ELSE 0

\* The estimate from the current sample alone: user, nice, system, irq,
\* softirq and steal over the sum of all counters.
CpuInstantPct ==
    LET f == call.g.stat.fields
    IN  IF CpuTotalNow > 0
        THEN Round2((f[1] + f[2] + f[3] + f[6] + f[7] + f[8]) * 100, CpuTotalNow)
        ELSE 0

\* C14 (as claimed): without a cached previous aggregate the percentage is
\* the instantaneous estimate, and on every poll with a cached previous
\* aggregate it is derived from the tick deltas.
C14_DeltaWheneverPriorCached ==
    CpuPolled =>
        call.out.info.cpu_used_pct = (IF CpuPriorCached THEN CpuDeltaPct ELSE CpuInstantPct)

\* C14 (amended): the percentage is derived from the tick deltas when a
\* previous aggregate is cached and the current total is above the cached
\* total; in every other case (nothing cached, or a total that has not
\* advanced or has gone back) it is the instantaneous estimate.
C14_DeltaWhenAdvancedElseInstantaneous ==
    CpuPolled =>
        call.out.info.cpu_used_pct =
            (IF CpuPriorCached /\ CpuTotalNow > Val(call.before.prev_sys_cpu_times).total
             THEN CpuDeltaPct ELSE CpuInstantPct)

\* A poll found the same total as the cached one and published the
\* estimate of the current sample, which is not what the deltas give.
C14_TotalNotAdvancedEstimated ==
    /\ CpuPolled
    /\ CpuPriorCached
    /\ CpuTotalNow <= Val(call.before.prev_sys_cpu_times).total
    /\ call.out.info.cpu_used_pct = CpuInstantPct
    /\ CpuInstantPct # CpuDeltaPct

----------------------------------------------------------------------------
(* C15: a process that vanished after the enumeration.                     *)

\* The enumerated pids whose stat file, or whose status file after a
\* readable stat file, was not found.
VanishedPids ==
    {pid \in SeqToSet(call.k.dirs) :
        \/ call.k.proc[pid].stat.kind = "nf"
        \/ call.k.proc[pid].stat.kind = "ok" /\ call.k.proc[pid].status.kind = "nf"}

\* C15: a poll's result has no record for a pid whose stat or status file
\* was not found, neither cache table keeps an entry for it, and every
\* other enumerated pid whose stat and status were read has its record,
\* wherever in the enumeration the vanished pid came.
C15_VanishedPidDroppedAndPurged ==
    PolledProcesses =>
        /\ \A pid \in VanishedPids :
               /\ \A i \in DOMAIN call.out.result : call.out.result[i].pid # pid
               /\ pid \notin DOMAIN cache.prev_times
               /\ pid \notin DOMAIN cache.prev_proc_io_stats
        /\ \A pid \in ReadPids :
               /\ \E i \in DOMAIN call.out.result : call.out.result[i].pid = pid
               /\ pid \in DOMAIN cache.prev_times

\* Pid 1, which had an entry in both tables, was enumerated first and its
\* status file was gone; pid 2, enumerated after it, was read and is the
\* one record of the result.
C15_FirstPidVanishedSecondRead ==
    /\ PolledProcesses
    /\ call.k.dirs = <<1, 2>>
    /\ call.k.proc[1].stat.kind = "ok" /\ call.k.proc[1].status.kind = "nf"
    /\ 1 \in DOMAIN call.before.prev_times \cap DOMAIN call.before.prev_proc_io_stats
    /\ 1 \notin DOMAIN cache.prev_times \cup DOMAIN cache.prev_proc_io_stats
    /\ Len(call.out.result) = 1
    /\ call.out.result[1].pid = 2

----------------------------------------------------------------------------
(* C16: a process whose io file cannot be read.                            *)

\* C16: a process whose stat and status were read and whose io file was
\* not found, not permitted or not a number has its record in the poll's
\* result, with both I/O rates 0 and with the threads, the memory, the
\* cumulative CPU time and the CPU percentage that the stat and status
\* files give (with 100 ticks a second, the percentage is the ticks since
\* the cached value per second of elapsed time).
C16_IoFailureKeepsRecord ==
    PolledProcesses =>
        \A pid \in ReadPids :
            call.k.proc[pid].io.kind # "ok" =>
                \E i \in DOMAIN call.out.result :
                    LET rec     == call.out.result[i]
                        p       == call.k.proc[pid]
                        elapsed == IF call.now - call.before.prev_timestamp <= 1 THEN 1000
                                   ELSE call.now - call.before.prev_timestamp
                        prev    == IF pid \in DOMAIN call.before.prev_times
                                   THEN call.before.prev_times[pid] ELSE 0
                    IN  /\ rec.pid = pid
                        /\ rec.io_read_bps = 0
                        /\ rec.io_write_bps = 0
                        /\ rec.threads = p.status.threads
                        /\ rec.memory_mb = (p.status.vmrss * 100) \div 1024
                        /\ rec.cpu_time = (p.stat.ticks * 100) \div CLK_TCK
                        /\ rec.cpu_percent =
                               Max(0, RateOf(prev, p.stat.ticks, elapsed))

\* The io file of pid 1 was read at one poll and not permitted at the
\* next: the record is there with rates 0 and the CPU time of the stat file.
C16_IoDeniedAfterRead ==
    /\ PolledProcesses
    /\ 1 \in call.seen_before.io
    /\ call.k.proc[1].io.kind = "perm"
    /\ Len(call.out.result) = 1
    /\ call.out.result[1].io_read_bps = 0
    /\ call.out.result[1].cpu_time = 500

----------------------------------------------------------------------------
(* C17: a limit change while a cycle is in progress.                       *)

\* Collector c makes its call get_processes_info(self.limit) in this step
\* and the call returns.
CallsGetProcessesInfo(c) ==
    /\ c \in DOMAIN collectors
    /\ collectors[c].pc = "procs"
    /\ collectors'[c].pc = "acquire"

\* The length of a list truncated with a positive limit, when every
\* process of the store's kernel has been read.
TruncatedTo(limit) == Min(limit, Cardinality(StorePids))

\* C17 (as claimed): the list a cycle builds is truncated with the limit
\* the store held when the cycle began, whatever is requested meanwhile;
\* the poller reads the limit holding the lock, and a thread that changes
\* the limit holds the lock.
C17_CycleUsesLimitAtStart ==
    [][/\ \A c \in Threads :
             CallsGetProcessesInfo(c) =>
                 /\ Len(Val(collectors'[c].procs).items)
                        = TruncatedTo(collectors[c].limit_at_start)
                 /\ lock = CollectorThread(c)
       /\ system_data'.limit # system_data.limit =>
             \E s \in Sessions : lock = SessionThread(s)]_vars

\* C17 (amended): the list a cycle builds is truncated with the limit the
\* store holds at the moment the poller calls get_processes_info, after
\* get_global_info has returned: a limit requested before that moment is
\* applied to the cycle in progress, one requested after it to the next.
C17_CycleUsesLimitAtCall ==
    [][\A c \in Threads :
          CallsGetProcessesInfo(c) =>
              Len(Val(collectors'[c].procs).items) = TruncatedTo(system_data.limit)]_vars

\* A cycle began with limit 10, the limit became 1 while it was in
\* progress, and the list it built has one record.
C17_ChangeAppliedMidCycle ==
    \E c \in DOMAIN collectors :
        /\ collectors[c].pc = "acquire"
        /\ collectors[c].limit_at_start = DefaultLimit
        /\ system_data.limit = 1
        /\ Len(Val(collectors[c].procs).items) = 1

----------------------------------------------------------------------------
(* C18: what the lock is held for.                                         *)

----------------------------------------------------------------------------
(* C19: the identity cache.                                                *)

UsernameCall ==
    call.fn \in {"get_username_from_uid_local", "model_system.get_username_from_uid_local"}

\* The cache of the module the latest call was made in, as it is now.
CacheOfCall ==
    IF call.fn = "get_username_from_uid_local" THEN user_cache ELSE model_system.user_cache

\* What a first lookup gives: the name of the entry with that uid, or the
\* uid as a string when there is none or the file is missing.
FirstResult(uid, passwd) ==
    IF passwd.kind = "ok" /\ uid \in DOMAIN passwd.entries THEN passwd.entries[uid]
    ELSE ToString(uid)

\* C19: in either module, over any sequence of calls, /etc/passwd is read
\* at most once for a uid; a call for a uid that is not cached and that
\* returns, returns and caches the matching name, or str(uid) when there is
\* no match or no file; a call for a cached uid returns the cached value
\* without opening the file, whatever the file holds by then; and no call
\* changes or drops the value cached for any uid.
C19_OneLookupPerUid ==
    UsernameCall =>
        /\ \A module \in {"model", "model_system"} :
               \A uid \in DOMAIN call.reads[module] : call.reads[module][uid] <= 1
        /\ call.uid \in DOMAIN call.before =>
               /\ ~call.out.raised
               /\ ~call.out.scanned
               /\ call.out.name = call.before[call.uid]
        /\ (call.uid \notin DOMAIN call.before /\ ~call.out.raised) =>
               /\ call.out.name = FirstResult(call.uid, call.passwd)
               /\ call.uid \in DOMAIN CacheOfCall
               /\ CacheOfCall[call.uid] = call.out.name
        /\ \A uid \in DOMAIN call.before :
               uid \in DOMAIN CacheOfCall /\ CacheOfCall[uid] = call.before[uid]

\* Uid 0 was cached as root; /etc/passwd now calls it admin, and the call
\* returned root without reading the file, which it has read once.
C19_RenamedUserStillCached ==
    /\ call.fn = "get_username_from_uid_local"
    /\ call.uid = 0
    /\ 0 \in DOMAIN call.before
    /\ call.passwd = [kind |-> "ok",
                      entries |-> [u \in {0, 1000} |-> IF u = 0 THEN "admin" ELSE "joao"]]
    /\ call.out.name = "root"
    /\ call.reads["model"][0] = 1

----------------------------------------------------------------------------
(* C20: the command name in /proc/[pid]/stat.                              *)

\* C20: whatever the command name, with or without spaces, the name
\* get_processes_info publishes is the whole text between the parentheses
\* and its cpu_time is utime + stime of the kernel's fields 14 and 15; the
\* CPU time, the nice value and the start get_process_details reports are
\* those of the kernel's fields 14, 15, 19 and 22.
C20_NameDelimitedByParentheses ==
    /\ PolledProcesses =>
           \A i \in DOMAIN call.out.result :
               LET rec  == call.out.result[i]
                   file == call.k.proc[rec.pid].stat_file
               IN  /\ rec.name = file.comm
                   /\ rec.cpu_time = ((file.after[11] + file.after[12]) * 100) \div CLK_TCK
    /\ (call.fn = "get_process_details" /\ call.out.found) =>
           LET details == Val(call.out.details)
               file    == call.d.stat_file
           IN  /\ details.TempoCPU = ((file.after[11] + file.after[12]) * 100) \div CLK_TCK
               /\ details.Nice = Some(file.after[16])
               /\ details.Iniciado.value = Val(call.d.btime) * CLK_TCK + file.after[19]

----------------------------------------------------------------------------
(* C21: the memory figures of get_global_info.                             *)

\* The memory table the latest get_global_info parsed, with MemTotal in it.
MemPolled == PolledGlobal /\ call.g.meminfo.kind = "ok" /\ call.g.meminfo.MemTotal # None

\* The available amount as stated: MemAvailable, or MemFree in its absence.
MemAvailableStated ==
    IF call.g.meminfo.MemAvailable # None THEN Val(call.g.meminfo.MemAvailable)
    ELSE Val(call.g.meminfo.MemFree)

\* C21: in the record of a get_global_info that parsed a memory table, with
\* available = MemAvailable, or MemFree when MemAvailable is absent: when
\* MemTotal is 0 the used percent, the free percent and the used KB are 0;
\* otherwise the used percent is (1 - available/total) * 100 and the free
\* percent available/total * 100, both rounded to two decimals.
C21_MemoryDerivation ==
    MemPolled =>
        LET total == Val(call.g.meminfo.MemTotal)
            info  == call.out.info
        IN  IF total = 0
            THEN /\ info.mem_used_pct = 0
                 /\ info.mem_free_pct = 0
                 /\ info.mem_used_absolute_kb = 0
            ELSE /\ info.mem_used_pct = Round2((total - MemAvailableStated) * 100, total)
                 /\ info.mem_free_pct = Round2(MemAvailableStated * 100, total)

\* A table without MemAvailable, MemFree a quarter of MemTotal: 25 % free.
C21_MemFreeStandsIn ==
    /\ MemPolled
    /\ call.g.meminfo.MemAvailable = None
    /\ call.g.meminfo.MemFree = Some(2048)
    /\ call.out.info.mem_free_pct = 2500
    /\ call.out.info.mem_used_pct = 7500

----------------------------------------------------------------------------
(* C22: get_global_info when one of its files cannot be used.              *)

\* C22: every call get_global_info returns a record, whatever the state of
\* /proc/stat, /proc/meminfo and /proc/diskstats (missing, not readable,
\* malformed); the family of a file that cannot be used has its defaults,
\* and the families of the other files are what their own files give.
C22_DegradedRecordNeverRaises ==
    call.fn = "get_global_info" =>
        LET g    == call.g
            info == call.out.info
            cpu  == CpuBlock(call.before.prev_sys_cpu_times, [g.stat EXCEPT !.kind =
                        IF @ = "perm" THEN "nf" ELSE @])
            mem  == MemBlock(call.before.mem_total_kb, [g.meminfo EXCEPT !.kind =
                        IF @ = "perm" THEN "nf" ELSE @])
        IN  /\ ~call.out.raised
            /\ g.stat.kind # "ok" => info.cpu_used_pct = 0 /\ info.cpu_ocioso_pct = 0
            /\ g.meminfo.kind # "ok" =>
                   /\ info.mem_used_pct = 0
                   /\ info.mem_free_pct = 0
                   /\ info.mem_used_absolute_kb = 0
            /\ g.diskstats.kind # "ok" => info.disk_read_bps = 0 /\ info.disk_write_bps = 0
            /\ info.cpu_used_pct = cpu.cpu_used_pct
            /\ info.cpu_ocioso_pct = cpu.cpu_ocioso_pct
            /\ info.mem_used_pct = mem.mem_used_pct
            /\ info.mem_free_pct = mem.mem_free_pct
            /\ info.proc_count = Cardinality(g.dirs)
            /\ info.thread_count_global = ThreadCount(g.dirs, g.proc)

----------------------------------------------------------------------------
(* C23: the listing of a directory.                                        *)

\* The latest call listed a directory.
Listed == call.fn = "get_directory_contents" /\ call.dir.kind = "dir"

\* C23: the list get_directory_contents returns for a directory has one
\* entry per child, in the order of the enumeration and under the child's
\* name; the entry of a child whose stat failed has one of the three
\* unreadable types and N/A in its other fields, and the entry of a child
\* whose stat succeeded has the type of the file.
C23_OneEntryPerChild ==
    Listed =>
        /\ Len(call.out.contents) = Len(call.dir.children)
        /\ \A i \in DOMAIN call.dir.children :
               LET child == call.dir.children[i]
                   item  == call.out.contents[i]
               IN  /\ item.name = child.name
                   /\ child.stat.kind = "nf"   => item.type = "N/A (Nao Encontrado)"
                   /\ child.stat.kind = "perm" => item.type = "N/A (Permissao Negada)"
                   /\ child.stat.kind = "err"  => item.type = "N/A (Erro)"
                   /\ child.stat.kind # "ok" =>
                          /\ item.size = None
                          /\ item.permissions_octal = None
                          /\ item.owner_username = None
                   /\ child.stat.kind = "ok" =>
                          /\ item.type \in {"Arquivo", "Diretorio"}
                          /\ item.owner_username # None

\* A directory whose first child vanished and whose second is not
\* readable, followed by a regular file: three entries, the third complete.
C23_FailuresThenFileListed ==
    /\ Listed
    /\ Len(call.dir.children) = 3
    /\ call.dir.children[1].stat.kind = "nf"
    /\ call.dir.children[2].stat.kind = "perm"
    /\ call.dir.children[3].stat.kind = "ok"
    /\ Len(call.out.contents) = 3
    /\ call.out.contents[3].type = "Arquivo"
    /\ call.out.contents[3].size = Some(10)

----------------------------------------------------------------------------
(* C29: a malformed line of /proc/mounts.                                  *)

\* The partitions the lines of a table give when each line is taken alone.
RECURSIVE SurveyedAlone(_, _)
SurveyedAlone(lines, statvfs) ==
    IF lines = <<>> THEN <<>>
    ELSE (IF Len(Head(lines)) >= 3 /\ MountKept(Head(lines)[1], Head(lines)[2], Head(lines)[3])
          THEN Partition(Head(lines), statvfs[Head(lines)[2]]) ELSE <<>>)
         \o SurveyedAlone(Tail(lines), statvfs)

\* C29: the partitions get_filesystem_info returns from a readable mount
\* table are those of its well-formed lines that are not ignored and that
\* statvfs can survey, in order, whatever lines of fewer than three fields
\* stand before them.
C29_MalformedLineSkipped ==
    (call.fn = "get_filesystem_info" /\ call.m.kind = "ok") =>
        call.out.partitions = SurveyedAlone(call.m.lines, call.m.statvfs)

----------------------------------------------------------------------------
(* C24: the time the rates are divided by.                                 *)

\* The divisor as stated: the elapsed time when it exceeds 1 ms, else 1 s.
StatedDivisor(now, previous) == IF now - previous > 1 THEN now - previous ELSE 1000

\* C24: the interval get_processes_info divides by is the time since the
\* previous poll when that exceeds 1 ms and one second otherwise (also when
\* the previous timestamp is later than the current one), it is positive,
\* and every per-process CPU percentage and I/O rate is the clamped delta
\* over that interval; a disk rate of get_global_info, when one is
\* computed, is the clamped delta over the interval obtained the same way
\* from the disk timestamp.
C24_DivisorPositive ==
    /\ PolledProcesses =>
           LET d == StatedDivisor(call.now, call.before.prev_timestamp)
           IN  /\ d > 0
               /\ call.out.elapsed_wall_time = d
               /\ \A i \in DOMAIN call.out.result :
                      LET rec  == call.out.result[i]
                          p    == call.k.proc[rec.pid]
                          prev == IF rec.pid \in DOMAIN call.before.prev_times
                                  THEN call.before.prev_times[rec.pid] ELSE 0
                      IN  /\ rec.cpu_percent = Max(0, RateOf(prev, p.stat.ticks, d))
                          /\ (p.io.kind = "ok" /\ rec.pid \in DOMAIN call.before.prev_proc_io_stats) =>
                                 LET io == call.before.prev_proc_io_stats[rec.pid]
                                 IN  /\ rec.io_read_bps =
                                            Max(0, RateOf(io.read_bytes, p.io.read_bytes, d))
                                     /\ rec.io_write_bps =
                                            Max(0, RateOf(io.write_bytes, p.io.write_bytes, d))
    /\ (PolledGlobal /\ call.g.diskstats.kind = "ok" /\ call.before.prev_disk_stats # None) =>
           LET d == StatedDivisor(call.now, call.before.prev_disk_io_timestamp)
           IN  /\ d > 0
               /\ call.out.info.disk_read_bps \in
                      {0, Max(0, RateOf(DiskBefore.total_reads_bytes,
                                        DiskNow.total_reads_bytes, d))}
               /\ call.out.info.disk_write_bps \in
                      {0, Max(0, RateOf(DiskBefore.total_writes_bytes,
                                        DiskNow.total_writes_bytes, d))}

\* A poll whose clock reads earlier than the cached timestamp, and a poll
\* 1 ms after the previous one: both divide by one second.
C24_ClockWentBack ==
    /\ PolledProcesses
    /\ call.now < call.before.prev_timestamp
    /\ call.out.elapsed_wall_time = 1000
    /\ Len(call.out.result) = 1
    /\ 1 \in DOMAIN call.before.prev_proc_io_stats
    /\ call.k.proc[1].io.kind = "ok"

----------------------------------------------------------------------------
(* C25: no published rate is negative.                                     *)

\* C25: whatever the counters of two polls, the disk rates of every record
\* get_global_info returns and the cpu_percent, io_read_bps and
\* io_write_bps of every process get_processes_info returns are >= 0.
C25_RatesNeverNegative ==
    /\ PolledGlobal =>
           call.out.info.disk_read_bps >= 0 /\ call.out.info.disk_write_bps >= 0
    /\ PolledProcesses =>
           \A i \in DOMAIN call.out.result :
               /\ call.out.result[i].cpu_percent >= 0
               /\ call.out.result[i].io_read_bps >= 0
               /\ call.out.result[i].io_write_bps >= 0

\* pid 1 read with fewer ticks and fewer bytes than the cache holds for it
\* (the pid was reused): cpu_percent and both I/O rates are published as 0.
C25_PidReusedCountersBack ==
    /\ IoPolledTwice
    /\ call.k.proc[1].io.kind = "ok"
    /\ IoNow.read_bytes < IoBefore.read_bytes
    /\ call.k.proc[1].stat.ticks < call.before.prev_times[1]
    /\ call.out.result[1].cpu_percent = 0
    /\ call.out.result[1].io_read_bps = 0
    /\ call.out.result[1].io_write_bps = 0

----------------------------------------------------------------------------
(* C26: the used and the idle CPU percentages of one record.               *)

\* C26: in every record get_global_info builds from a cpu line of at least
\* eight counters with a positive total, cpu_used_pct and cpu_ocioso_pct
\* add up to 100 to within the rounding of the two (0.01), on a poll that
\* takes the deltas and on a poll that takes the instantaneous estimate.
C26_UsedAndIdleSumTo100 ==
    (CpuPolled /\ CpuTotalNow > 0) =>
        call.out.info.cpu_used_pct + call.out.info.cpu_ocioso_pct \in 9999..10001

----------------------------------------------------------------------------
(* C27: a process whose stat or status read fails otherwise than by a      *)
(* missing file.                                                           *)

\* The enumerated pids whose stat read, or whose status read after a
\* readable stat, failed for lack of permission or on a malformed field.
FailedPids ==
    {pid \in SeqToSet(call.k.dirs) :
        \/ call.k.proc[pid].stat.kind \in {"perm", "bad"}
        \/ call.k.proc[pid].stat.kind = "ok" /\ call.k.proc[pid].status.kind \in {"perm", "bad"}}

\* What a table holds for a pid after the call is nothing, or what it held
\* before the call.
NotPoisoned(after, before, pid) ==
    pid \in DOMAIN after => (pid \in DOMAIN before /\ after[pid] = before[pid])

\* C27: a poll's result has no record for a pid whose stat or status read
\* failed for lack of permission or on a malformed field; after the poll
\* prev_times and prev_proc_io_stats hold for that pid nothing or what they
\* held before; and every other enumerated pid whose stat and status were
\* read has its record, wherever in the enumeration the failing pid came.
C27_FailedReadSkippedCacheClean ==
    PolledProcesses =>
        /\ \A pid \in FailedPids :
               /\ \A i \in DOMAIN call.out.result : call.out.result[i].pid # pid
               /\ NotPoisoned(cache.prev_times, call.before.prev_times, pid)
               /\ NotPoisoned(cache.prev_proc_io_stats, call.before.prev_proc_io_stats, pid)
        /\ (FailedPids # {}) =>
               \A pid \in ReadPids :
                   \E i \in DOMAIN call.out.result :
                       /\ call.out.result[i].pid = pid
                       /\ cache.prev_times[pid] = call.k.proc[pid].stat.ticks

\* Pid 1, cached by an earlier poll, comes first with a malformed stat
\* line; pid 2 after it is read and is the one record of the result.
C27_MalformedFirstSecondRead ==
    /\ PolledProcesses
    /\ call.k.dirs = <<1, 2>>
    /\ call.k.proc[1].stat.kind = "bad"
    /\ 1 \in DOMAIN call.before.prev_times
    /\ 1 \notin DOMAIN cache.prev_times
    /\ Len(call.out.result) = 1
    /\ call.out.result[1].pid = 2

----------------------------------------------------------------------------
(* C28: get_process_details when the stat file cannot be used.             *)

\* C28: for a pid that exists, whose status file is read and whose owner is
\* looked up, a stat file that cannot be opened for lack of permission, or
\* whose line is malformed or too short, still gives a detail record: nice,
\* priority and start unknown, CPU time 0, and the fields of the status
\* file filled.
C28_StatFailureDegradesFields ==
    (/\ call.fn = "get_process_details"
     /\ call.d.exists
     /\ call.d.status.kind = "ok"
     /\ call.d.passwd.kind = "ok"
     /\ call.d.stat.kind \in {"perm", "bad", "short"}) =>
        /\ call.out.found
        /\ LET details == Val(call.out.details)
           IN  /\ details.Nice = None
               /\ details.Prioridade = "N/A"
               /\ details.Iniciado.kind = "N/A"
               /\ details.TempoCPU = 0
               /\ details.Nome = call.d.status.Name
               /\ details.Estado = call.d.status.State
               /\ details.Threads = call.d.status.Threads
               /\ details.VmRSS = call.d.status.VmRSS

----------------------------------------------------------------------------
(* C30: start_background_thread called when the collector has been started. *)

\* A step that is a call of start_background_thread made when the flag
\* _thread_started was set (no step of the collector touches call).
LaterStartCall ==
    /\ thread_started
    /\ call' # call
    /\ call'.fn = "start_background_thread"

----------------------------------------------------------------------------
(* C31: swap usage in the global-info record.                               *)

\* The names of the two swap entries, as the record's keys are named here.
SwapKeys == {"swap_used_kb", "swap_used_pct"}

\* The latest get_global_info read a /proc/meminfo that states no swap.
NoSwapStated ==
    \/ call.g.meminfo.kind # "ok"
    \/ call.g.meminfo.SwapTotal = None
    \/ call.g.meminfo.SwapTotal = Some(0)

\* C31: every record returned by get_global_info has the entries
\* swap_used_kb and swap_used_pct, and both are 0 when the system has no
\* swap (SwapTotal = 0).
C31_SwapInEveryRecord ==
    PolledGlobal =>
        /\ SwapKeys \subseteq DOMAIN call.out.info
        /\ NoSwapStated => /\ call.out.info.swap_used_kb = 0
                           /\ call.out.info.swap_used_pct = 0

----------------------------------------------------------------------------
(* C32: the tables of the cache and the timestamp they are read against.    *)

\* The pids whose stat and status the latest call read and stored.
TicksStoredNow ==
    {pid \in SeqToSet(call.k.dirs) :
        call.k.proc[pid].stat.kind = "ok" /\ call.k.proc[pid].status.kind = "ok"}

\* C32: whenever a poll may start, every entry of prev_proc_io_stats was
\* stored by the latest completed poll, the one whose time is in
\* prev_timestamp (call.seen.io holds the pids whose io file that poll
\* read), and so was every entry of prev_times; this also after polls in
\* which an io file could not be read and after polls that an exception
\* left.
C32_CacheTimeCoherent ==
    /\ DOMAIN cache.prev_proc_io_stats \subseteq call.seen.io
    /\ PolledProcesses => DOMAIN cache.prev_times \subseteq TicksStoredNow

----------------------------------------------------------------------------
(* C33: get_snapshot before the first cycle has published.                  *)

\* No update() has assigned self.global_info yet: the store holds the dict
\* its constructor made (every published record carries its cycle's number,
\* 1 or more).
NothingPublished == system_data.global_info.cycle = 0

\* The step in which get_snapshot of session s returns (lines 76-77).
SnapshotReturns(s) == session[s].pc = "copy_procs" /\ session'[s].pc = "render"

\* C33: a get_snapshot that returns while no cycle has published returns
\* the nine metrics all 0 and an empty process list, whether no collector
\* exists yet, the first cycle is collecting or waiting for the lock, or a
\* cycle has failed.
C33_DefaultsBeforeFirstPublish ==
    [][\A s \in Sessions :
          SnapshotReturns(s) /\ NothingPublished =>
              /\ Val(session'[s].global_info).info =
                     [cpu_used_pct |-> 0, cpu_ocioso_pct |-> 0, mem_used_absolute_kb |-> 0,
                      mem_used_pct |-> 0, mem_free_pct |-> 0, proc_count |-> 0,
                      thread_count_global |-> 0, disk_read_bps |-> 0, disk_write_bps |-> 0]
              /\ Val(session'[s].processes).items = <<>>]_vars

\* A session holds the defaults it was returned while a collector has
\* collected its first cycle and waits for the lock, nothing being
\* published yet.
C33_SnapshotWhileFirstCycleWaits ==
    \E s \in Sessions :
        /\ session[s].pc = "render"
        /\ Val(session[s].global_info).info = global_info_defaults
        /\ Val(session[s].processes).items = <<>>
        /\ NothingPublished
        /\ \E c \in DOMAIN collectors : collectors[c].pc = "acquire"

----------------------------------------------------------------------------
(* C34: progress of the poll loop, under SpecLive.                          *)

\* Collector c has collected cycle n without an exception and is at the
\* "with self.lock" of update().
CollectedCycle(c, n) ==
    /\ c \in DOMAIN collectors
    /\ collectors[c].pc = "acquire"
    /\ collectors[c].cycle = n

\* The store holds the pair of cycle n and its lock is free: what a
\* get_snapshot made now returns.
PublishedCycle(n) ==
    /\ lock = Free
    /\ system_data.global_info.cycle = n
    /\ system_data.processes.cycle = n

\* C34: once a collector thread exists, the loop goes on starting cycles
\* (here until MaxCycles of them have been started), every cycle ends with
\* the collector back in its sleep, and the pair of every cycle that raised
\* no exception becomes the pair the store holds with the lock free.
C34_PollerProgress ==
    /\ (collectors # EmptyDict) ~> (cycles = MaxCycles)
    /\ \A c \in Threads :
           []<>(c \in DOMAIN collectors => collectors[c].pc \in {"sleep", "update"})
    /\ \A c \in Threads : \A n \in 1..MaxCycles :
           CollectedCycle(c, n) ~> PublishedCycle(n)

\* A session holds the snapshot of the second cycle or of a later one: the
\* loop has gone round and the result has reached a reader.
C34_LaterCycleReachedReader ==
    \E s \in Sessions :
        /\ session[s].pc = "render"
        /\ Val(session[s].global_info).cycle >= 2
        /\ Val(session[s].processes).cycle = Val(session[s].global_info).cycle

----------------------------------------------------------------------------
(* C35: the store's lock, under SpecLiveReaders.                            *)

\* The thread that holds the lock is inside one of the two with blocks, past
\* its acquisition: it is at no statement that acquires the lock.
HolderInsideBlock ==
    /\ \A c \in Threads :
          lock = CollectorThread(c) =>
              c \in DOMAIN collectors /\ collectors[c].pc \in {"swap_global", "swap_procs"}
    /\ \A s \in Sessions :
          lock = SessionThread(s) => session[s].pc \in {"copy_global", "copy_procs"}

\* C35: the lock is never left held (whoever holds it is inside a with
\* block and not at an acquisition, and a held lock becomes free again);
\* every collector that waits with a collected pair gets the lock and
\* finishes its update(); every session's get_snapshot gets the lock and
\* returns; this with two sessions reading while the collector publishes.
C35_LockNeverLeftHeld ==
    /\ []HolderInsideBlock
    /\ (lock # Free) ~> (lock = Free)
    /\ \A c \in Threads :
           (c \in DOMAIN collectors /\ collectors[c].pc = "acquire")
               ~> (c \in DOMAIN collectors /\ collectors[c].pc = "sleep")
    /\ \A s \in Sessions :
           (session[s].pc = "start") ~> (session[s].pc = "render")

\* One session holds the lock inside get_snapshot while the other has not
\* been served yet and a collector waits with a collected pair.
C35_ReaderHoldsOthersWait ==
    \E s, t \in Sessions, c \in DOMAIN collectors :
        /\ s # t
        /\ lock = SessionThread(s)
        /\ session[s].pc = "copy_procs"
        /\ session[t].pc = "start"
        /\ collectors[c].pc = "acquire"

====
